---- MODULE Spec2Model ----
(***************************************************************************)
(* Model of the handle based filesystem layer, src/filesystem.c.           *)
(*                                                                         *)
(* Strings are sequences of one-character strings.  Native streams are     *)
(* small positive integers, NULL is 0.  Com_Error(ERR_FATAL)               *)
(* ends the process (alive = FALSE); Com_Error(ERR_DROP) leaves the call   *)
(* without returning to its caller and the process goes on.  Every         *)
(* operation records what it did in the variable last: its arguments, its  *)
(* return value, the error it ended in and the native calls it issued.     *)
(***************************************************************************)
EXTENDS Integers, Sequences, FiniteSets, TLC

\* ------------------------------------------------------------------ bounds
\* number of slots of the handle table fsh (64 in the program)
MAX_FILE_HANDLES == 4
\* longest file name given to an operation
MaxNameLen == 2
\* longest transfer asked of FS_Read / FS_Write
MaxLen == 3
\* largest size of a native file
MaxFileLen == 3
\* number of packs (pak0, pak1, ...) in every game directory
NumPaks == 2

\* --------------------------------------------------------------- constants
NULL == 0
PATH_SEP == "/"
FS_SEEK_CUR == 0
FS_SEEK_END == 1
FS_SEEK_SET == 2
\* the scratch buffer of an archive seek (65536 in the program)
PK3_SEEK_BUFFER_SIZE == 2

\* configuration values (cvars): home path and current game directory
fs_homepath == <<"/", "h">>
fs_gamedir == <<"g">>
\* the values fs_basepath can be configured to: equal to the home path or not
BasePaths == {<<"/", "h">>, <<"/", "b">>}
\* the same, and a base path that differs from the home path in case only
CaseBasePaths == BasePaths \cup {<<"/", "H">>}
\* the cd path, when one is configured
fs_cdpath == <<"/", "c">>
\* the hardcoded default game, the base game a mod builds on, when one is
\* configured, and the current game (the cvar fs_game), which fs_gamedir holds
BASEGAME == <<"m">>
fs_basegame == <<"o">>
fs_gamedirvar == fs_gamedir

\* ------------------------------------------------------------------ strings
NameChars == {"a", ".", "/", "\\", ":"}

SeqsUpTo(S, n) == UNION {[1..k -> S] : k \in 0..n}

\* every file name of at most MaxNameLen characters
Names == SeqsUpTo(NameChars, MaxNameLen)

\* strstr(s, sub) != NULL
Contains(s, sub) ==
    \E i \in 1..(Len(s) - Len(sub) + 1) : SubSeq(s, i, i + Len(sub) - 1) = sub

Min(a, b) == IF a < b THEN a ELSE b

\* s[strlen(s)-1] = '\0'
StripLast(s) == SubSeq(s, 1, Len(s) - 1)

FS_ReplaceSeparators(path) ==
    [i \in 1..Len(path) |-> IF path[i] = "/" \/ path[i] = "\\" THEN PATH_SEP ELSE path[i]]

FS_BuildOSPath(base, game, qpath) ==
    LET g == IF game = <<>> THEN fs_gamedir ELSE game
        temp == FS_ReplaceSeparators(<<"/">> \o g \o <<"/">> \o qpath)
    IN  base \o temp

\* FS_BuildOSPath( base, filename, "" ) with the trailing separator removed,
\* as every FS_SV_ operation composes its path
SV_OSPath(base, filename) == StripLast(FS_BuildOSPath(base, filename, <<>>))

\* the refusal test of FS_CreatePath without its test for "::"
FS_CreatePath_refuses_dotsOnly(OSPath) ==
    Contains(OSPath, <<".", ".">>)

\* the refusal test of FS_CreatePath
FS_CreatePath_refuses(OSPath) ==
    Contains(OSPath, <<".", ".">>) \/ Contains(OSPath, <<":", ":">>)

RECURSIVE FS_CreatePath_loop(_, _)
\* the directories FS_CreatePath hands to Sys_Mkdir, from position ofs on
FS_CreatePath_loop(OSPath, ofs) ==
    IF ofs > Len(OSPath) THEN <<>>
    ELSE IF OSPath[ofs] = PATH_SEP
         THEN <<SubSeq(OSPath, 1, ofs - 1)>> \o FS_CreatePath_loop(OSPath, ofs + 1)
         ELSE FS_CreatePath_loop(OSPath, ofs + 1)

\* FS_CreatePath: ret is its return value (qtrue = refused), mkdirs the
\* directories it creates, in order
FS_CreatePath(OSPath) ==
    IF FS_CreatePath_refuses(OSPath)
    THEN [ret |-> TRUE, mkdirs |-> <<>>]
    ELSE [ret |-> FALSE, mkdirs |-> FS_CreatePath_loop(OSPath, 2)]

\* ------------------------------------------------- where a native path lies
RECURSIVE Components(_, _, _)
\* the components of a path between separators
Components(s, i, cur) ==
    IF i > Len(s) THEN <<cur>>
    ELSE IF s[i] = PATH_SEP THEN <<cur>> \o Components(s, i + 1, <<>>)
         ELSE Components(s, i + 1, Append(cur, s[i]))

RECURSIVE Resolve(_, _)
\* the directory stack the operating system reaches walking the components
Resolve(comps, stack) ==
    IF comps = <<>> THEN stack
    ELSE LET c == Head(comps)
         IN  IF c = <<>> \/ c = <<".">> THEN Resolve(Tail(comps), stack)
             ELSE IF c = <<".", ".">>
                  THEN Resolve(Tail(comps),
                               IF stack = <<>> THEN stack ELSE SubSeq(stack, 1, Len(stack) - 1))
                  ELSE Resolve(Tail(comps), Append(stack, c))

Canonical(path) == Resolve(Components(path, 1, <<>>), <<>>)

\* the native path names the root directory or something below it
InsideTree(path, root) ==
    LET p == Canonical(path)
        r == Canonical(root)
    IN  Len(p) >= Len(r) /\ SubSeq(p, 1, Len(r)) = r

\* the name has a component ".." once its separators are canonical
HasParentSegment(name) ==
    \E k \in 1..Len(Components(FS_ReplaceSeparators(name), 1, <<>>)) :
        Components(FS_ReplaceSeparators(name), 1, <<>>)[k] = <<".", ".">>

\* Q_stricmp on the letters the model uses: 0 when equal ignoring case
LowerLetters == <<"a", "b", "c", "d", "e", "f", "g", "h", "i", "j", "k", "l", "m", "n", "o", "p", "q", "r", "s", "t", "u", "v", "w", "x", "y", "z">>

UpperLetters == <<"A", "B", "C", "D", "E", "F", "G", "H", "I", "J", "K", "L", "M", "N", "O", "P", "Q", "R", "S", "T", "U", "V", "W", "X", "Y", "Z">>

Upper(c) ==
    IF \E i \in 1..Len(LowerLetters) : LowerLetters[i] = c
    THEN UpperLetters[CHOOSE i \in 1..Len(LowerLetters) : LowerLetters[i] = c]
    ELSE c

Q_stricmp(s1, s2) ==
    IF [i \in 1..Len(s1) |-> Upper(s1[i])] = [i \in 1..Len(s2) |-> Upper(s2[i])] THEN 0 ELSE 1

\* Q_stricmpn( s1, s2, n ): the same on the first n characters
Q_stricmpn(s1, s2, n) ==
    Q_stricmp(SubSeq(s1, 1, Min(n, Len(s1))), SubSeq(s2, 1, Min(n, Len(s2))))

\* -------------------------------------------------------------------- state
VARIABLES
    fs_searchpaths,   \* the search path list, <<>> while the filesystem is not initialized
    fs_basepath,      \* the configured base path
    disk,             \* the loose files of the game directories: their bytes, by directory
    fsh,              \* the handle table, slots 0 .. MAX_FILE_HANDLES-1
    streams,          \* the native streams: open or not, position, size of the file
    alive,            \* FALSE once Com_Error(ERR_FATAL) or a crash ended the process
    last              \* the last operation: arguments, results, native calls

vars == <<fs_searchpaths, fs_basepath, disk, fsh, streams, alive, last>>

Slots == 0..(MAX_FILE_HANDLES - 1)

\* a native stream per slot that can hold one is all the program can have open
StreamIds == 1..(MAX_FILE_HANDLES - 1)

\* the most elements a search path list has: three game directories under
\* three origins, each with its packs
MaxElements == 9 * (NumPaks + 1)

\* pak->handle of the pack that is search path element i: the stream the pack
\* was opened on when it was added, shared by every non-unique handle on it
PakHandle(i) == MAX_FILE_HANDLES + i

PakStreamIds == {PakHandle(i) : i \in 1..MaxElements}

\* a zeroed fileHandleData_t; o is the union handleFiles.file (o and z)
EmptySlot ==
    [o |-> NULL, zipFile |-> FALSE, unique |-> FALSE, handleSync |-> FALSE,
     streamed |-> FALSE, name |-> <<>>]

ClosedStream == [open |-> FALSE, pos |-> 0, size |-> 0]

\* the slots that hold a stream
Occupied == {i \in Slots : fsh[i].o # NULL}

FS_Initialized == fs_searchpaths # <<>>

\* a native (or codec) call: the function, the path or stream it is given, the
\* buffer offset and byte count it is asked for and the count it returns
Call(fn, path, stream, off, n, r) ==
    [fn |-> fn, path |-> path, path2 |-> <<>>, stream |-> stream, off |-> off, n |-> n, r |-> r]

\* a native call on two paths
Call2(fn, path, path2, r) ==
    [fn |-> fn, path |-> path, path2 |-> path2, stream |-> NULL, off |-> 0, n |-> 0, r |-> r]

\* a read that no successful seek on the same handle comes just before
NoSeek == [ok |-> FALSE, offset |-> 0, origin |-> 0]

\* the record of an operation, taken in the state it is called in: f is the
\* handle argument, name and name2 the file names, h the handle it hands back, ret its return value, oob
\* whether it indexed fsh outside its slots, origin the origin of a seek, data
\* what it put into the caller's buffer, seek the seek a read follows
Last(op, f, name, len, h, ret, err, calls, oob) ==
    [op |-> op, f |-> f, name |-> name, name2 |-> <<>>, len |-> len, origin |-> 0,
     init |-> FS_Initialized, pre |-> Occupied, h |-> h, ret |-> ret, err |-> err,
     calls |-> calls, oob |-> oob, data |-> <<>>, seek |-> NoSeek, buffer |-> FALSE]

\* Com_Error( ERR_FATAL, ... ): the process ends
Fatal(l) ==
    /\ alive' = FALSE
    /\ last' = l
    /\ UNCHANGED <<disk, fs_searchpaths, fs_basepath, fsh, streams>>

\* Com_Error( ERR_DROP, ... ) and every call that changes nothing but last
Leave(l) ==
    /\ last' = l
    /\ UNCHANGED <<disk, fs_searchpaths, fs_basepath, fsh, streams, alive>>

\* undefined behaviour (a NULL stream given to a native call, an index outside
\* fsh): the process crashes or goes on with whatever value came back
Undefined(l, crash) ==
    /\ alive' = ~crash
    /\ last' = l
    /\ UNCHANGED <<disk, fs_searchpaths, fs_basepath, fsh, streams>>

\* the one file the operations open, and the only one packs and game
\* directories hold
FileA == <<"a">>

\* the game directories a loose file can lie in, and the mark of no file there
DiskKeys == (CaseBasePaths \cup {fs_homepath, fs_cdpath}) \X {fs_gamedirvar, fs_basegame, BASEGAME}

NoFile == <<-1>>

\* the state at program start, with fs_basepath configured to one of paths
InitWith(paths) ==
    /\ fs_searchpaths = <<>>
    /\ fs_basepath \in paths
    /\ fsh = [i \in Slots |-> EmptySlot]
    /\ streams = [s \in StreamIds \cup PakStreamIds |-> ClosedStream]
    /\ alive = TRUE
    /\ disk = [k \in DiskKeys |-> NoFile]
    /\ last = [op |-> "none", f |-> 0, name |-> <<>>, name2 |-> <<>>, len |-> 0, origin |-> 0,
               init |-> FALSE, pre |-> {}, h |-> 0, ret |-> 0, err |-> "none", calls |-> <<>>,
               oob |-> FALSE, data |-> <<>>, seek |-> NoSeek, buffer |-> FALSE]

Init == InitWith(BasePaths)

RECURSIVE Flatten(_)
\* the concatenation of a sequence of sequences
Flatten(seqs) == IF seqs = <<>> THEN <<>> ELSE Head(seqs) \o Flatten(Tail(seqs))

\* FS_AddGameDirectory( path, dir ): the search path elements of one game
\* directory in the order they are searched, its packs from the highest number
\* down and then the directory itself.  len is the length of the pack's entry
\* for the file "a", -1 while it has none
FS_AddGameDirectory(path, dir) ==
    [k \in 1..NumPaks |-> [pack |-> TRUE, path |-> path, game |-> dir, num |-> NumPaks - k, len |-> -1]]
      \o <<[pack |-> FALSE, path |-> path, game |-> dir, num |-> 0, len |-> -1]>>

\* FS_Startup adding the origins of a game directory home first, cd last
GameDirectoryAdds_homeFirst(cd, dir) ==
    (IF Q_stricmp(fs_homepath, fs_basepath) # 0 THEN <<<<fs_homepath, dir>>>> ELSE <<>>)
      \o <<<<fs_basepath, dir>>>>
      \o (IF cd THEN <<<<fs_cdpath, dir>>>> ELSE <<>>)

\* the FS_AddGameDirectory calls FS_Startup makes for the game directory dir,
\* in the order it makes them: the cd path when there is one, the base path,
\* the home path when it is not the base path
GameDirectoryAdds(cd, dir) ==
    (IF cd THEN <<<<fs_cdpath, dir>>>> ELSE <<>>)
      \o <<<<fs_basepath, dir>>>>
      \o (IF Q_stricmp(fs_homepath, fs_basepath) # 0 THEN <<<<fs_homepath, dir>>>> ELSE <<>>)

\* all FS_AddGameDirectory calls of FS_Startup( BASEGAME ) in the order it
\* makes them, "in reverse priority order": BASEGAME, then fs_basegame and
\* fs_game where they are set and differ from BASEGAME
StartupAdds(cd, basegame) ==
    GameDirectoryAdds(cd, BASEGAME)
      \o (IF basegame /\ Q_stricmp(fs_basegame, BASEGAME) # 0
          THEN GameDirectoryAdds(cd, fs_basegame) ELSE <<>>)
      \o (IF Q_stricmp(fs_gamedirvar, BASEGAME) # 0
          THEN GameDirectoryAdds(cd, fs_gamedirvar) ELSE <<>>)

\* the search path list these calls leave: each call puts its elements in
\* front of those of the calls before it
StartupSearchPath(cd, basegame) ==
    LET adds == StartupAdds(cd, basegame)
        n == Len(adds)
    IN  Flatten([k \in 1..n |-> FS_AddGameDirectory(adds[n + 1 - k][1], adds[n + 1 - k][2])])

\* the length and the bytes of the file "a" as search path element i holds it
LenOf(i) == 1 + (i % MaxFileLen)

ByteOf(i, j) == 10 * i + j

FileData(i) == [j \in 1..LenOf(i) |-> ByteOf(i, j)]

\* FS_Startup( BASEGAME ) builds the search path list.  cd, basegame: a cd
\* path, a base game is configured; a, b: the search path elements (0: none)
\* whose pack or directory holds a file "a" when the filesystem starts
FS_Startup(cd, basegame, a, b) ==
    /\ alive
    /\ fs_searchpaths = <<>>
    /\ a <= b
    /\ \E sp \in {StartupSearchPath(cd, basegame)} :
        LET holders == {a, b} \ {0}
        IN
        /\ holders \subseteq 1..Len(sp)
        /\ fs_searchpaths' =
              [i \in 1..Len(sp) |->
                  IF sp[i].pack /\ i \in holders THEN [sp[i] EXCEPT !.len = LenOf(i)] ELSE sp[i]]
        /\ disk' = [k \in DiskKeys |->
                      IF \E i \in holders : ~sp[i].pack /\ <<sp[i].path, sp[i].game>> = k
                      THEN FileData(CHOOSE i \in holders : ~sp[i].pack /\ <<sp[i].path, sp[i].game>> = k)
                      ELSE NoFile]
        /\ streams' = [s \in DOMAIN streams |->
                         IF \E i \in 1..Len(sp) : s = PakHandle(i) /\ sp[i].pack
                         THEN [open |-> TRUE, pos |-> 0, size |-> 0]
                         ELSE streams[s]]
        /\ last' = Last("FS_Startup", 0, <<>>, 0, 0, 0, "none", <<>>, FALSE)
        /\ UNCHANGED <<fs_basepath, fsh, alive>>

\* ------------------------------------------------------------- handle table
\* FS_HandleForFile with its scan started at slot 0
FS_HandleForFile_fromZero ==
    IF \E i \in 0..(MAX_FILE_HANDLES - 1) : fsh[i].o = NULL
    THEN CHOOSE i \in 0..(MAX_FILE_HANDLES - 1) :
            /\ fsh[i].o = NULL
            /\ \A j \in 0..(i - 1) : fsh[j].o # NULL
    ELSE -1

\* FS_HandleForFile without its test of the slot: the scan ends at slot 1
FS_HandleForFile_untested ==
    IF 1 < MAX_FILE_HANDLES THEN 1 ELSE -1

\* FS_HandleForFile: the first slot from 1 on with a NULL stream; -1 stands
\* for Com_Error( ERR_DROP, "FS_HandleForFile: none free" )
FS_HandleForFile ==
    IF \E i \in 1..(MAX_FILE_HANDLES - 1) : fsh[i].o = NULL
    THEN CHOOSE i \in 1..(MAX_FILE_HANDLES - 1) :
            /\ fsh[i].o = NULL
            /\ \A j \in 1..(i - 1) : fsh[j].o # NULL
    ELSE -1

\* FS_FileForHandle( f ): the range test lets f = MAX_FILE_HANDLES through, and
\* fsh[f] then lies outside the table: what is read there is garbage
FS_FileForHandle(f, garbage) ==
    IF f < 0 \/ f > MAX_FILE_HANDLES
    THEN [err |-> "ERR_DROP_range", o |-> NULL, oob |-> FALSE]
    ELSE LET o == IF f \in Slots THEN fsh[f].o ELSE garbage
         IN  IF o = NULL
             THEN [err |-> "ERR_DROP_null", o |-> NULL, oob |-> f \notin Slots]
             ELSE [err |-> "none", o |-> o, oob |-> f \notin Slots]

\* fopen: the lowest stream not open, NULL when the open fails
NewStream(ok) ==
    IF ok /\ \E s \in StreamIds : ~streams[s].open
    THEN CHOOSE s \in StreamIds :
            ~streams[s].open /\ \A t \in 1..(s - 1) : streams[t].open
    ELSE NULL

Opened(s, pos, size) ==
    IF s = NULL THEN streams
    ELSE [streams EXCEPT ![s] = [open |-> TRUE, pos |-> pos, size |-> size]]

\* Sys_Mkdir of each of dirs; failed: the ones whose mkdir fails with an errno
\* other than EEXIST, for which Sys_Mkdir returns qfalse
MkdirCallsWith(dirs, failed) ==
    [k \in 1..Len(dirs) |-> Call("mkdir", dirs[k], NULL, 0, 0, IF k \in failed THEN -1 ELSE 0)]

MkdirCalls(dirs) == MkdirCallsWith(dirs, {})

\* FS_SV_FOpenFileWrite calling fopen before FS_CreatePath is asked
FS_SV_FOpenFileWrite_dirs_opensFirst(filename, ok, failed) ==
    /\ alive
    /\ failed \subseteq 1..Len(FS_CreatePath(SV_OSPath(fs_homepath, filename)).mkdirs)
    /\ (fs_searchpaths = <<>> \/ FS_HandleForFile = -1) => failed = {}
    /\ IF fs_searchpaths = <<>>
       THEN Fatal(Last("FS_SV_FOpenFileWrite", 0, filename, 0, 0, 0, "ERR_FATAL_uninit", <<>>, FALSE))
       ELSE LET ospath == SV_OSPath(fs_homepath, filename)
                f == FS_HandleForFile
                cp == FS_CreatePath(ospath)
                s == NewStream(ok)
            IN  IF f = -1
                THEN Leave(Last("FS_SV_FOpenFileWrite", 0, filename, 0, 0, 0, "ERR_DROP_nonefree", <<>>, FALSE))
                ELSE IF cp.ret
                THEN /\ fsh' = [fsh EXCEPT ![f] = [@ EXCEPT !.zipFile = FALSE, !.o = s]]
                     /\ streams' = Opened(s, 0, 0)
                     /\ last' = Last("FS_SV_FOpenFileWrite", 0, filename, 0, 0, 0, "none",
                                     <<Call("fopen_wb", ospath, s, 0, 0, 0)>>, FALSE)
                     /\ UNCHANGED <<disk, fs_searchpaths, fs_basepath, alive>>
                ELSE /\ fsh' = [fsh EXCEPT ![f] = [@ EXCEPT !.zipFile = FALSE, !.o = s,
                                                            !.name = filename, !.handleSync = FALSE]]
                     /\ streams' = Opened(s, 0, 0)
                     /\ last' = Last("FS_SV_FOpenFileWrite", 0, filename, 0,
                                     IF s = NULL THEN 0 ELSE f, IF s = NULL THEN 0 ELSE f, "none",
                                     MkdirCallsWith(cp.mkdirs, failed) \o <<Call("fopen_wb", ospath, s, 0, 0, 0)>>,
                                     FALSE)
                     /\ UNCHANGED <<disk, fs_searchpaths, fs_basepath, alive>>

\* FS_SV_FOpenFileWrite( filename ); ok: the native fopen succeeds
FS_SV_FOpenFileWrite_dirs(filename, ok, failed) ==
    /\ alive
    /\ failed \subseteq 1..Len(FS_CreatePath(SV_OSPath(fs_homepath, filename)).mkdirs)
    /\ (fs_searchpaths = <<>> \/ FS_HandleForFile = -1) => failed = {}
    /\ IF fs_searchpaths = <<>>
       THEN Fatal(Last("FS_SV_FOpenFileWrite", 0, filename, 0, 0, 0, "ERR_FATAL_uninit", <<>>, FALSE))
       ELSE LET ospath == SV_OSPath(fs_homepath, filename)
                f == FS_HandleForFile
                cp == FS_CreatePath(ospath)
                s == NewStream(ok)
            IN  IF f = -1
                THEN Leave(Last("FS_SV_FOpenFileWrite", 0, filename, 0, 0, 0, "ERR_DROP_nonefree", <<>>, FALSE))
                ELSE IF cp.ret
                THEN /\ fsh' = [fsh EXCEPT ![f].zipFile = FALSE]
                     /\ last' = Last("FS_SV_FOpenFileWrite", 0, filename, 0, 0, 0, "none", <<>>, FALSE)
                     /\ UNCHANGED <<disk, fs_searchpaths, fs_basepath, streams, alive>>
                ELSE /\ fsh' = [fsh EXCEPT ![f] = [@ EXCEPT !.zipFile = FALSE, !.o = s,
                                                            !.name = filename, !.handleSync = FALSE]]
                     /\ streams' = Opened(s, 0, 0)
                     /\ last' = Last("FS_SV_FOpenFileWrite", 0, filename, 0,
                                     IF s = NULL THEN 0 ELSE f, IF s = NULL THEN 0 ELSE f, "none",
                                     MkdirCallsWith(cp.mkdirs, failed) \o <<Call("fopen_wb", ospath, s, 0, 0, 0)>>,
                                     FALSE)
                     /\ UNCHANGED <<disk, fs_searchpaths, fs_basepath, alive>>

\* FS_SV_FOpenFileWrite( filename ) when every directory can be created
FS_SV_FOpenFileWrite(filename, ok) == FS_SV_FOpenFileWrite_dirs(filename, ok, {})

\* FS_SV_FOpenFileAppend( filename ); size: the size of the file the native
\* fopen opens for appending, -1 when it fails
FS_SV_FOpenFileAppend_dirs(filename, size, failed) ==
    /\ alive
    /\ failed \subseteq 1..Len(FS_CreatePath(SV_OSPath(fs_homepath, filename)).mkdirs)
    /\ (fs_searchpaths = <<>> \/ FS_HandleForFile = -1) => failed = {}
    /\ IF fs_searchpaths = <<>>
       THEN Fatal(Last("FS_SV_FOpenFileAppend", 0, filename, 0, 0, 0, "ERR_FATAL_uninit", <<>>, FALSE))
       ELSE LET ospath == SV_OSPath(fs_homepath, filename)
                f == FS_HandleForFile
                cp == FS_CreatePath(ospath)
                s == NewStream(size >= 0)
            IN  IF f = -1
                THEN Leave(Last("FS_SV_FOpenFileAppend", 0, filename, 0, 0, 0, "ERR_DROP_nonefree", <<>>, FALSE))
                ELSE IF cp.ret
                THEN /\ fsh' = [fsh EXCEPT ![f] = [@ EXCEPT !.zipFile = FALSE, !.name = filename]]
                     /\ last' = Last("FS_SV_FOpenFileAppend", 0, filename, 0, 0, 0, "none", <<>>, FALSE)
                     /\ UNCHANGED <<disk, fs_searchpaths, fs_basepath, streams, alive>>
                ELSE /\ fsh' = [fsh EXCEPT ![f] = [@ EXCEPT !.zipFile = FALSE, !.o = s,
                                                            !.name = filename, !.handleSync = FALSE]]
                     /\ streams' = Opened(s, size, size)
                     /\ last' = Last("FS_SV_FOpenFileAppend", 0, filename, 0,
                                     IF s = NULL THEN 0 ELSE f, IF s = NULL THEN 0 ELSE f, "none",
                                     MkdirCallsWith(cp.mkdirs, failed) \o <<Call("fopen_ab", ospath, s, 0, 0, 0)>>,
                                     FALSE)
                     /\ UNCHANGED <<disk, fs_searchpaths, fs_basepath, alive>>

\* FS_SV_FOpenFileAppend( filename ) when every directory can be created
FS_SV_FOpenFileAppend(filename, size) == FS_SV_FOpenFileAppend_dirs(filename, size, {})

\* the file FS_FOpenFileWrite and FS_FOpenFileAppend open: qpath in the
\* current game directory under the home path
HomeGamePath(qpath) == FS_BuildOSPath(fs_homepath, fs_gamedir, qpath)

\* the modes of FS_FOpenFileByMode that open for appending
AppendModes == {"FS_APPEND", "FS_APPEND_SYNC"}

\* FS_FOpenFileByMode( qpath, f, mode ), mode one of AppendModes; size: the
\* size of the file FS_FOpenFileAppend opens, -1 when its fopen fails.  The
\* last assignment is to fsh[*f] whether or not a handle was opened, so after
\* a failed open it is slot 0 that takes the sync flag
FS_FOpenFileByMode(qpath, mode, size) ==
    /\ alive
    /\ IF fs_searchpaths = <<>>
       THEN Fatal(Last("FS_FOpenFileByMode", 0, qpath, 0, 0, 0, "ERR_FATAL_uninit", <<>>, FALSE))
       ELSE LET sync == (mode = "FS_APPEND_SYNC")
                ospath == HomeGamePath(qpath)
                f == FS_HandleForFile
                cp == FS_CreatePath(ospath)
                s == IF cp.ret THEN NULL ELSE NewStream(size >= 0)
                h == IF s = NULL THEN 0 ELSE f
            IN  IF f = -1
                THEN Leave(Last("FS_FOpenFileByMode", 0, qpath, 0, 0, 0, "ERR_DROP_nonefree", <<>>, FALSE))
                ELSE /\ fsh' = [[fsh EXCEPT ![f] = [@ EXCEPT !.zipFile = FALSE, !.o = s,
                                                             !.name = qpath, !.handleSync = FALSE]]
                                  EXCEPT ![h] = [@ EXCEPT !.handleSync = sync,
                                                          !.streamed = IF s = NULL THEN @ ELSE FALSE]]
                     /\ streams' = Opened(s, 0, size)
                     /\ last' = Last("FS_FOpenFileByMode", 0, qpath, 0, h,
                                     IF s = NULL THEN -1 ELSE 0, "none",
                                     (IF cp.ret THEN <<>>
                                      ELSE MkdirCalls(cp.mkdirs) \o <<Call("fopen_ab", ospath, s, 0, 0, 0)>>)
                                       \o (IF s = NULL THEN <<>>
                                           ELSE <<Call("ftell", <<>>, s, 0, 0, size),
                                                  Call("fseek_end", <<>>, s, 0, 0, 0),
                                                  Call("ftell", <<>>, s, 0, 0, size),
                                                  Call("fseek_set", <<>>, s, 0, 0, 0)>>),
                                     FALSE)
                     /\ UNCHANGED <<disk, fs_searchpaths, fs_basepath, alive>>

\* the decimal digit of a pack number
Digit(num) == <<"0", "1", "2", "3", "4">>[num + 1]

\* the base name of pack number num of a game directory
pakBasename(num) == <<"p", Digit(num)>>

IwdExt == <<".", "i", "w", "d">>

\* the file a search path element opens for filename: the pack itself, or
\* filename in the element's directory
ElementPath(e, filename) ==
    IF e.pack THEN FS_BuildOSPath(e.path, e.game, pakBasename(e.num) \o IwdExt)
    ELSE FS_BuildOSPath(e.path, e.game, filename)

\* search path element e holds filename
ElementHolds(e, filename) ==
    /\ filename = FileA
    /\ IF e.pack THEN e.len >= 0 ELSE disk[<<e.path, e.game>>] # NoFile

\* the length of filename in search path element e, which holds it
ElementLength(e) == IF e.pack THEN e.len ELSE Len(disk[<<e.path, e.game>>])

\* the walk of FS_FOpenFileRead: the first search path element that holds
\* filename, 0 when none does or the name is unsafe
FirstHit(filename) ==
    IF Contains(filename, <<".", ".">>) \/ Contains(filename, <<":", ":">>) THEN 0
    ELSE IF \E i \in 1..Len(fs_searchpaths) : ElementHolds(fs_searchpaths[i], filename)
    THEN CHOOSE i \in 1..Len(fs_searchpaths) :
            /\ ElementHolds(fs_searchpaths[i], filename)
            /\ \A j \in 1..(i - 1) : ~ElementHolds(fs_searchpaths[j], filename)
    ELSE 0

\* the native and codec calls of the walk up to element hit (all elements when
\* hit is 0): a fopen per directory, and the codec's open of the entry found
WalkCalls(filename, hit, s) ==
    LET n == IF hit = 0 THEN Len(fs_searchpaths) ELSE hit
        safe == ~(Contains(filename, <<".", ".">>) \/ Contains(filename, <<":", ":">>))
    IN  IF ~safe THEN <<>>
        ELSE Flatten([i \in 1..n |->
                IF fs_searchpaths[i].pack
                THEN IF i = hit
                     THEN <<Call("unzOpenCurrentFile", ElementPath(fs_searchpaths[i], filename), s, 0, 0, 0)>>
                     ELSE <<>>
                ELSE <<Call("fopen_rb", ElementPath(fs_searchpaths[i], filename),
                            IF i = hit THEN s ELSE NULL, 0, 0, 0)>>])

\* FS_FOpenFileRead( filename, file ): the first search path element that holds
\* the file gives the handle, archive-backed for a pack, plain for a directory,
\* and the length returned; -1 and handle 0 when no element holds it
FS_FOpenFileRead_z(filename, uniqueFILE) ==
    /\ alive
    /\ IF fs_searchpaths = <<>>
       THEN Fatal(Last("FS_FOpenFileRead", 0, filename, 0, 0, 0, "ERR_FATAL_uninit", <<>>, FALSE))
       ELSE LET hit == FirstHit(filename)
                f == FS_HandleForFile
                shared == hit # 0 /\ fs_searchpaths[hit].pack /\ ~uniqueFILE
                s == IF shared THEN PakHandle(hit) ELSE NewStream(TRUE)
            IN  IF hit = 0
                THEN Leave(Last("FS_FOpenFileRead", 0, filename, 0, 0, -1, "none",
                                WalkCalls(filename, 0, NULL), FALSE))
                ELSE IF f = -1
                THEN Leave(Last("FS_FOpenFileRead", 0, filename, 0, 0, 0, "ERR_DROP_nonefree", <<>>, FALSE))
                ELSE LET e == fs_searchpaths[hit]
                     IN  /\ s # NULL
                         /\ (~e.pack => uniqueFILE)
                         /\ fsh' = [fsh EXCEPT ![f] = [o |-> s, zipFile |-> e.pack,
                                                       unique |-> e.pack /\ uniqueFILE,
                                                       handleSync |-> FALSE, streamed |-> FALSE,
                                                       name |-> filename]]
                         /\ streams' = Opened(s, 0, ElementLength(e))
                         /\ last' = Last("FS_FOpenFileRead", 0, filename, 0, f, ElementLength(e),
                                         "none", WalkCalls(filename, hit, s), FALSE)
                         /\ UNCHANGED <<disk, fs_searchpaths, fs_basepath, alive>>

\* FS_FOpenFileRead( filename, file ) with an archive handle of its own
FS_FOpenFileRead(filename) == FS_FOpenFileRead_z(filename, TRUE)

\* what a read outside fsh can find where a stream pointer is expected
WildStream == MAX_FILE_HANDLES

\* every handle value an operation is called with: the slots and their neighbours
HandleValues == (-1)..(MAX_FILE_HANDLES + 1)

\* the native calls of FS_filelength on stream s
FilelengthCalls(s) ==
    <<Call("ftell", <<>>, s, 0, 0, streams[s].pos),
      Call("fseek_end", <<>>, s, 0, 0, 0),
      Call("ftell", <<>>, s, 0, 0, streams[s].size),
      Call("fseek_set", <<>>, s, 0, streams[s].pos, 0)>>

\* FS_filelength( f )
FS_filelength(f, garbage, crash) ==
    /\ alive
    /\ (f # MAX_FILE_HANDLES => garbage = NULL)
    /\ LET r == FS_FileForHandle(f, garbage)
       IN  IF r.err # "none"
           THEN /\ ~crash
                /\ Leave(Last("FS_filelength", f, <<>>, 0, 0, 0, r.err, <<>>, r.oob))
           ELSE IF r.oob
           THEN Undefined(Last("FS_filelength", f, <<>>, 0, 0, 0, "undefined",
                               <<Call("ftell", <<>>, r.o, 0, 0, 0)>>, TRUE), crash)
           ELSE /\ ~crash
                /\ Leave(Last("FS_filelength", f, <<>>, 0, 0, streams[r.o].size, "none",
                              FilelengthCalls(r.o), FALSE))

\* FS_ForceFlush( f )
FS_ForceFlush(f, garbage, crash) ==
    /\ alive
    /\ (f # MAX_FILE_HANDLES => garbage = NULL)
    /\ LET r == FS_FileForHandle(f, garbage)
       IN  IF r.err # "none"
           THEN /\ ~crash
                /\ Leave(Last("FS_ForceFlush", f, <<>>, 0, 0, 0, r.err, <<>>, r.oob))
           ELSE IF r.oob
           THEN Undefined(Last("FS_ForceFlush", f, <<>>, 0, 0, 0, "undefined",
                               <<Call("setvbuf", <<>>, r.o, 0, 0, 0)>>, TRUE), crash)
           ELSE /\ ~crash
                /\ Leave(Last("FS_ForceFlush", f, <<>>, 0, 0, 0, "none",
                              <<Call("setvbuf", <<>>, r.o, 0, 0, 0)>>, FALSE))

\* FS_SV_FOpenFileRead trying the base path whether or not it is the home path
FS_SV_FOpenFileRead_alwaysBase(filename, sizeHome, sizeBase) ==
    /\ alive
    /\ IF fs_searchpaths = <<>>
       THEN /\ sizeHome = -1 /\ sizeBase = -1
            /\ Fatal(Last("FS_SV_FOpenFileRead", 0, filename, 0, 0, 0, "ERR_FATAL_uninit", <<>>, FALSE))
       ELSE LET f == FS_HandleForFile
                homeOS == SV_OSPath(fs_homepath, filename)
                baseOS == SV_OSPath(fs_basepath, filename)
                s1 == NewStream(sizeHome >= 0)
                tryBase == s1 = NULL
                s2 == IF tryBase THEN NewStream(sizeBase >= 0) ELSE s1
                size == IF s1 # NULL THEN sizeHome ELSE sizeBase
                opens == <<Call("fopen_rb", homeOS, s1, 0, 0, 0)>>
                           \o (IF tryBase THEN <<Call("fopen_rb", baseOS, s2, 0, 0, 0)>> ELSE <<>>)
            IN  IF f = -1
                THEN /\ sizeHome = -1 /\ sizeBase = -1
                     /\ Leave(Last("FS_SV_FOpenFileRead", 0, filename, 0, 0, 0, "ERR_DROP_nonefree", <<>>, FALSE))
                ELSE /\ (~tryBase => sizeBase = -1)
                     /\ fsh' = [fsh EXCEPT ![f] = [@ EXCEPT !.zipFile = FALSE, !.o = s2,
                                                            !.name = filename, !.handleSync = FALSE]]
                     /\ streams' = Opened(s2, 0, size)
                     /\ last' = Last("FS_SV_FOpenFileRead", 0, filename, 0,
                                     IF s2 = NULL THEN 0 ELSE f,
                                     IF s2 = NULL THEN 0 ELSE size, "none",
                                     opens \o (IF s2 = NULL THEN <<>>
                                               ELSE <<Call("ftell", <<>>, s2, 0, 0, 0),
                                                      Call("fseek_end", <<>>, s2, 0, 0, 0),
                                                      Call("ftell", <<>>, s2, 0, 0, size),
                                                      Call("fseek_set", <<>>, s2, 0, 0, 0)>>),
                                     FALSE)
                     /\ UNCHANGED <<disk, fs_searchpaths, fs_basepath, alive>>

\* FS_SV_FOpenFileRead( filename, fp ); sizeHome, sizeBase: the size of the
\* file under the home and under the base path, -1 where fopen fails
FS_SV_FOpenFileRead(filename, sizeHome, sizeBase) ==
    /\ alive
    /\ IF fs_searchpaths = <<>>
       THEN /\ sizeHome = -1 /\ sizeBase = -1
            /\ Fatal(Last("FS_SV_FOpenFileRead", 0, filename, 0, 0, 0, "ERR_FATAL_uninit", <<>>, FALSE))
       ELSE LET f == FS_HandleForFile
                homeOS == SV_OSPath(fs_homepath, filename)
                baseOS == SV_OSPath(fs_basepath, filename)
                s1 == NewStream(sizeHome >= 0)
                tryBase == s1 = NULL /\ Q_stricmp(fs_homepath, fs_basepath) # 0
                s2 == IF tryBase THEN NewStream(sizeBase >= 0) ELSE s1
                size == IF s1 # NULL THEN sizeHome ELSE sizeBase
                opens == <<Call("fopen_rb", homeOS, s1, 0, 0, 0)>>
                           \o (IF tryBase THEN <<Call("fopen_rb", baseOS, s2, 0, 0, 0)>> ELSE <<>>)
            IN  IF f = -1
                THEN /\ sizeHome = -1 /\ sizeBase = -1
                     /\ Leave(Last("FS_SV_FOpenFileRead", 0, filename, 0, 0, 0, "ERR_DROP_nonefree", <<>>, FALSE))
                ELSE /\ (~tryBase => sizeBase = -1)
                     /\ fsh' = [fsh EXCEPT ![f] = [@ EXCEPT !.zipFile = FALSE, !.o = s2,
                                                            !.name = filename, !.handleSync = FALSE]]
                     /\ streams' = Opened(s2, 0, size)
                     /\ last' = Last("FS_SV_FOpenFileRead", 0, filename, 0,
                                     IF s2 = NULL THEN 0 ELSE f,
                                     IF s2 = NULL THEN 0 ELSE size, "none",
                                     opens \o (IF s2 = NULL THEN <<>>
                                               ELSE <<Call("ftell", <<>>, s2, 0, 0, 0),
                                                      Call("fseek_end", <<>>, s2, 0, 0, 0),
                                                      Call("ftell", <<>>, s2, 0, 0, size),
                                                      Call("fseek_set", <<>>, s2, 0, 0, 0)>>),
                                     FALSE)
                     /\ UNCHANGED <<disk, fs_searchpaths, fs_basepath, alive>>

\* FS_FCloseFile without the memset of the slot
FS_FCloseFile_noMemset(f) ==
    /\ alive
    /\ f \in Slots
    /\ fsh' = fsh
    /\ IF fsh[f].o # NULL /\ ~fsh[f].zipFile
       THEN /\ streams' = [streams EXCEPT ![fsh[f].o] = ClosedStream]
            /\ last' = Last("FS_FCloseFile", f, <<>>, 0, 0, 1, "none",
                            <<Call("fclose", <<>>, fsh[f].o, 0, 0, 0)>>, FALSE)
       ELSE /\ streams' = streams
            /\ last' = Last("FS_FCloseFile", f, <<>>, 0, 0, 0, "none", <<>>, FALSE)
    /\ UNCHANGED <<disk, fs_searchpaths, fs_basepath, alive>>

\* FS_FCloseFile clearing the stream pointer of the slot and nothing else
FS_FCloseFile_clearsStreamOnly(f) ==
    /\ alive
    /\ f \in Slots
    /\ fsh' = [fsh EXCEPT ![f].o = NULL]
    /\ IF fsh[f].zipFile
       THEN /\ streams' = IF fsh[f].unique /\ fsh[f].o # NULL
                          THEN [streams EXCEPT ![fsh[f].o] = ClosedStream]
                          ELSE streams
            /\ last' = Last("FS_FCloseFile", f, <<>>, 0, 0, 1, "none",
                            <<Call("unzCloseCurrentFile", <<>>, fsh[f].o, 0, 0, 0)>>
                              \o (IF fsh[f].unique
                                  THEN <<Call("unzClose", <<>>, fsh[f].o, 0, 0, 0)>>
                                  ELSE <<>>),
                            FALSE)
       ELSE IF fsh[f].o # NULL
       THEN /\ streams' = [streams EXCEPT ![fsh[f].o] = ClosedStream]
            /\ last' = Last("FS_FCloseFile", f, <<>>, 0, 0, 1, "none",
                            <<Call("fclose", <<>>, fsh[f].o, 0, 0, 0)>>, FALSE)
       ELSE /\ streams' = streams
            /\ last' = Last("FS_FCloseFile", f, <<>>, 0, 0, 0, "none", <<>>, FALSE)
    /\ UNCHANGED <<disk, fs_searchpaths, fs_basepath, alive>>

\* FS_FCloseFile with unzClose called for every archive handle
FS_FCloseFile_closesShared(f) ==
    /\ alive
    /\ f \in Slots
    /\ fsh' = [fsh EXCEPT ![f] = EmptySlot]
    /\ IF fsh[f].zipFile
       THEN /\ streams' = IF fsh[f].o # NULL
                          THEN [streams EXCEPT ![fsh[f].o] = ClosedStream]
                          ELSE streams
            /\ last' = Last("FS_FCloseFile", f, <<>>, 0, 0, 1, "none",
                            <<Call("unzCloseCurrentFile", <<>>, fsh[f].o, 0, 0, 0),
                              Call("unzClose", <<>>, fsh[f].o, 0, 0, 0)>>,
                            FALSE)
       ELSE IF fsh[f].o # NULL
       THEN /\ streams' = [streams EXCEPT ![fsh[f].o] = ClosedStream]
            /\ last' = Last("FS_FCloseFile", f, <<>>, 0, 0, 1, "none",
                            <<Call("fclose", <<>>, fsh[f].o, 0, 0, 0)>>, FALSE)
       ELSE /\ streams' = streams
            /\ last' = Last("FS_FCloseFile", f, <<>>, 0, 0, 0, "none", <<>>, FALSE)
    /\ UNCHANGED <<disk, fs_searchpaths, fs_basepath, alive>>

\* FS_FCloseFile( f ), f a slot of the table
FS_FCloseFile(f) ==
    /\ alive
    /\ f \in Slots
    /\ fsh' = [fsh EXCEPT ![f] = EmptySlot]
    /\ IF fsh[f].zipFile
       THEN /\ streams' = IF fsh[f].unique /\ fsh[f].o # NULL
                          THEN [streams EXCEPT ![fsh[f].o] = ClosedStream]
                          ELSE streams
            /\ last' = Last("FS_FCloseFile", f, <<>>, 0, 0, 1, "none",
                            <<Call("unzCloseCurrentFile", <<>>, fsh[f].o, 0, 0, 0)>>
                              \o (IF fsh[f].unique
                                  THEN <<Call("unzClose", <<>>, fsh[f].o, 0, 0, 0)>>
                                  ELSE <<>>),
                            FALSE)
       ELSE IF fsh[f].o # NULL
       THEN /\ streams' = [streams EXCEPT ![fsh[f].o] = ClosedStream]
            /\ last' = Last("FS_FCloseFile", f, <<>>, 0, 0, 1, "none",
                            <<Call("fclose", <<>>, fsh[f].o, 0, 0, 0)>>, FALSE)
       ELSE /\ streams' = streams
            /\ last' = Last("FS_FCloseFile", f, <<>>, 0, 0, 0, "none", <<>>, FALSE)
    /\ UNCHANGED <<disk, fs_searchpaths, fs_basepath, alive>>

\* FS_FTell( f )
FS_FTell(f, crash) ==
    /\ alive
    /\ IF f \notin Slots
       THEN Undefined(Last("FS_FTell", f, <<>>, 0, 0, 0, "undefined", <<>>, TRUE), crash)
       ELSE IF fsh[f].o = NULL
       THEN Undefined(Last("FS_FTell", f, <<>>, 0, 0, 0, "undefined",
                           <<Call("ftell", <<>>, NULL, 0, 0, 0)>>, FALSE), crash)
       ELSE /\ ~crash
            /\ Leave(Last("FS_FTell", f, <<>>, 0, 0, streams[fsh[f].o].pos, "none",
                          <<Call("ftell", <<>>, fsh[f].o, 0, 0, streams[fsh[f].o].pos)>>, FALSE))

\* FS_Flush( f ); fflush( NULL ) is defined: it flushes every open stream
FS_Flush(f, crash) ==
    /\ alive
    /\ IF f \notin Slots
       THEN Undefined(Last("FS_Flush", f, <<>>, 0, 0, 0, "undefined", <<>>, TRUE), crash)
       ELSE /\ ~crash
            /\ Leave(Last("FS_Flush", f, <<>>, 0, 0, 0, "none",
                          <<Call("fflush", <<>>, fsh[f].o, 0, 0, 0)>>, FALSE))

\* ---------------------------------------------------------------- transfers
\* what a native fread / fwrite asked for block bytes can return when avail
\* bytes can still be moved: an error, nothing, or a partial or full count
NativeResults(block, avail) == (-1)..Min(block, avail)

RECURSIVE FS_Read_loop(_, _, _, _, _, _, _, _)
\* FS_Read_loop giving up at the first native read that returns nothing
FS_Read_loop_noRetry(len, remaining, tries, off, pos, size, s, calls) ==
    IF remaining = 0
    THEN {[ret |-> len, err |-> "none", calls |-> calls, pos |-> pos]}
    ELSE UNION {
           LET c == Append(calls, Call("fread", <<>>, s, off, remaining, read))
           IN  IF read = 0
               THEN {[ret |-> len - remaining, err |-> "none", calls |-> c, pos |-> pos]}
               ELSE IF read = -1
               THEN {[ret |-> 0, err |-> "ERR_FATAL_read", calls |-> c, pos |-> pos]}
               ELSE FS_Read_loop(len, remaining - read, tries,
                                 off + read, pos + read, size, s, c)
           : read \in NativeResults(remaining, size - pos) }

\* FS_Read_loop reporting a full read when the second native read returns nothing
FS_Read_loop_fullOnStall(len, remaining, tries, off, pos, size, s, calls) ==
    IF remaining = 0
    THEN {[ret |-> len, err |-> "none", calls |-> calls, pos |-> pos]}
    ELSE UNION {
           LET c == Append(calls, Call("fread", <<>>, s, off, remaining, read))
           IN  IF read = 0 /\ tries # 0
               THEN {[ret |-> len, err |-> "none", calls |-> c, pos |-> pos]}
               ELSE IF read = -1
               THEN {[ret |-> 0, err |-> "ERR_FATAL_read", calls |-> c, pos |-> pos]}
               ELSE FS_Read_loop(len, remaining - read, IF read = 0 THEN 1 ELSE tries,
                                 off + read, pos + read, size, s, c)
           : read \in NativeResults(remaining, size - pos) }

\* the partial read loop of FS_Read on stream s: every way it can run, given
\* what the native reads return.  off is buf - buffer, pos the stream position
FS_Read_loop(len, remaining, tries, off, pos, size, s, calls) ==
    IF remaining = 0
    THEN {[ret |-> len, err |-> "none", calls |-> calls, pos |-> pos]}
    ELSE UNION {
           LET c == Append(calls, Call("fread", <<>>, s, off, remaining, read))
           IN  IF read = 0 /\ tries # 0
               THEN {[ret |-> len - remaining, err |-> "none", calls |-> c, pos |-> pos]}
               ELSE IF read = -1
               THEN {[ret |-> 0, err |-> "ERR_FATAL_read", calls |-> c, pos |-> pos]}
               ELSE FS_Read_loop(len, remaining - read, IF read = 0 THEN 1 ELSE tries,
                                 off + read, pos + read, size, s, c)
           : read \in NativeResults(remaining, size - pos) }

RECURSIVE FS_Write_loop(_, _, _, _, _, _, _, _)
\* FS_Write_loop returning the count written so far when the transfer stops
FS_Write_loop_shortCount(len, remaining, tries, off, pos, sync, s, calls) ==
    IF remaining = 0
    THEN {[ret |-> len, err |-> "none", pos |-> pos,
           calls |-> IF sync THEN Append(calls, Call("fflush", <<>>, s, 0, 0, 0)) ELSE calls]}
    ELSE UNION {
           LET c == Append(calls, Call("fwrite", <<>>, s, off, remaining, written))
           IN  IF (written = 0 /\ tries # 0) \/ written = -1
               THEN {[ret |-> len - remaining, err |-> "none", pos |-> pos,
                      calls |-> Append(c, Call("Com_Printf", <<>>, NULL, 0, 0, 0))]}
               ELSE FS_Write_loop(len, remaining - written, IF written = 0 THEN 1 ELSE tries,
                                  off + written, pos + written, sync, s, c)
           : written \in NativeResults(remaining, MaxFileLen - pos) }

\* FS_Write_loop forgetting the write that returned nothing once a later one
\* has written something
FS_Write_loop_triesReset(len, remaining, tries, off, pos, sync, s, calls) ==
    IF remaining = 0
    THEN {[ret |-> len, err |-> "none", pos |-> pos,
           calls |-> IF sync THEN Append(calls, Call("fflush", <<>>, s, 0, 0, 0)) ELSE calls]}
    ELSE UNION {
           LET c == Append(calls, Call("fwrite", <<>>, s, off, remaining, written))
           IN  IF written = 0 /\ tries # 0
               THEN {[ret |-> 0, err |-> "none", pos |-> pos,
                      calls |-> Append(c, Call("Com_Printf", <<>>, NULL, 0, 0, 0))]}
               ELSE IF written = -1
               THEN {[ret |-> 0, err |-> "none", pos |-> pos,
                      calls |-> Append(c, Call("Com_Printf", <<>>, NULL, 0, 0, 0))]}
               ELSE FS_Write_loop(len, remaining - written, IF written = 0 THEN 1 ELSE 0,
                                  off + written, pos + written, sync, s, c)
           : written \in NativeResults(remaining, MaxFileLen - pos) }

\* the partial write loop of FS_Write on stream s, with the flush that follows
\* it when the handle is synchronous
FS_Write_loop(len, remaining, tries, off, pos, sync, s, calls) ==
    IF remaining = 0
    THEN {[ret |-> len, err |-> "none", pos |-> pos,
           calls |-> IF sync THEN Append(calls, Call("fflush", <<>>, s, 0, 0, 0)) ELSE calls]}
    ELSE UNION {
           LET c == Append(calls, Call("fwrite", <<>>, s, off, remaining, written))
           IN  IF written = 0 /\ tries # 0
               THEN {[ret |-> 0, err |-> "none", pos |-> pos,
                      calls |-> Append(c, Call("Com_Printf", <<>>, NULL, 0, 0, 0))]}
               ELSE IF written = -1
               THEN {[ret |-> 0, err |-> "none", pos |-> pos,
                      calls |-> Append(c, Call("Com_Printf", <<>>, NULL, 0, 0, 0))]}
               ELSE FS_Write_loop(len, remaining - written, IF written = 0 THEN 1 ELSE tries,
                                  off + written, pos + written, sync, s, c)
           : written \in NativeResults(remaining, MaxFileLen - pos) }

\* unzReadCurrentFile( z, buffer, len ) on an entry with avail bytes left:
\* the count it delivers
unzReadCurrentFile(len, avail) == Min(len, avail)

\* the seek on handle f that the operation before this one was, if it was one
PrecedingSeek(f) ==
    IF last.op = "FS_Seek" /\ last.err = "none" /\ last.f = f
    THEN [ok |-> TRUE, offset |-> last.len, origin |-> last.origin]
    ELSE NoSeek

\* the bytes a transfer of got bytes from position pos puts into the buffer,
\* each named by its place in the file
Delivered(pos, got) == [j \in 1..got |-> pos + j]

\* FS_Read( buffer, len, f )
FS_Read(len, f, crash) ==
    /\ alive
    /\ IF fs_searchpaths = <<>>
       THEN /\ ~crash
            /\ Fatal(Last("FS_Read", f, <<>>, len, 0, 0, "ERR_FATAL_uninit", <<>>, FALSE))
       ELSE IF f = 0
       THEN /\ ~crash
            /\ Leave(Last("FS_Read", f, <<>>, len, 0, 0, "none", <<>>, FALSE))
       ELSE IF f \notin Slots
       THEN Undefined(Last("FS_Read", f, <<>>, len, 0, 0, "undefined", <<>>, TRUE), crash)
       ELSE IF fsh[f].zipFile
       THEN LET z == fsh[f].o
                got == unzReadCurrentFile(len, streams[z].size - streams[z].pos)
            IN  /\ ~crash
                /\ streams' = [streams EXCEPT ![z].pos = @ + got]
                /\ last' = [Last("FS_Read", f, <<>>, len, 0, got, "none",
                                 <<Call("unzReadCurrentFile", <<>>, z, 0, len, got)>>, FALSE)
                               EXCEPT !.data = Delivered(streams[z].pos, got),
                                      !.seek = PrecedingSeek(f)]
                /\ UNCHANGED <<disk, fs_searchpaths, fs_basepath, fsh, alive>>
       ELSE IF fsh[f].o = NULL
       THEN IF len = 0
            THEN /\ ~crash
                 /\ Leave(Last("FS_Read", f, <<>>, len, 0, 0, "none", <<>>, FALSE))
            ELSE Undefined(Last("FS_Read", f, <<>>, len, 0, 0, "undefined",
                                <<Call("fread", <<>>, NULL, 0, len, 0)>>, FALSE), crash)
       ELSE /\ ~crash
            /\ \E run \in FS_Read_loop(len, len, 0, 0, streams[fsh[f].o].pos,
                                       streams[fsh[f].o].size, fsh[f].o, <<>>) :
                 /\ streams' = [streams EXCEPT ![fsh[f].o].pos = run.pos]
                 /\ alive' = (run.err = "none")
                 /\ last' = [Last("FS_Read", f, <<>>, len, 0, run.ret, run.err, run.calls, FALSE)
                                EXCEPT !.data = Delivered(streams[fsh[f].o].pos,
                                                          run.pos - streams[fsh[f].o].pos),
                                       !.seek = PrecedingSeek(f)]
            /\ UNCHANGED <<disk, fs_searchpaths, fs_basepath, fsh>>

\* FS_Write( buffer, len, h )
FS_Write(len, h, garbage, crash) ==
    /\ alive
    /\ (h # MAX_FILE_HANDLES \/ fs_searchpaths = <<>> => garbage = NULL)
    /\ IF fs_searchpaths = <<>>
       THEN /\ ~crash
            /\ Fatal(Last("FS_Write", h, <<>>, len, 0, 0, "ERR_FATAL_uninit", <<>>, FALSE))
       ELSE IF h = 0
       THEN /\ ~crash
            /\ Leave(Last("FS_Write", h, <<>>, len, 0, 0, "none", <<>>, FALSE))
       ELSE LET r == FS_FileForHandle(h, garbage)
            IN  IF r.err # "none"
                THEN /\ ~crash
                     /\ Leave(Last("FS_Write", h, <<>>, len, 0, 0, r.err, <<>>, r.oob))
                ELSE IF r.oob
                THEN Undefined(Last("FS_Write", h, <<>>, len, 0, 0, "undefined",
                                    <<Call("fwrite", <<>>, r.o, 0, len, 0)>>, TRUE), crash)
                ELSE /\ ~crash
                     /\ \E run \in FS_Write_loop(len, len, 0, 0, streams[r.o].pos,
                                                 fsh[h].handleSync, r.o, <<>>) :
                          /\ streams' = [streams EXCEPT
                                           ![r.o].pos = run.pos,
                                           ![r.o].size = IF run.pos > @ THEN run.pos ELSE @]
                          /\ last' = Last("FS_Write", h, <<>>, len, 0, run.ret, run.err,
                                          run.calls, FALSE)
                     /\ UNCHANGED <<disk, fs_searchpaths, fs_basepath, fsh, alive>>

RECURSIVE FS_Seek_discard(_, _, _)
\* the reads by which FS_Seek discards remainder bytes of an archive entry
\* with avail bytes left, each an FS_Read that delegates to the codec
FS_Seek_discard(z, remainder, avail) ==
    IF remainder > PK3_SEEK_BUFFER_SIZE
    THEN <<Call("unzReadCurrentFile", <<>>, z, 0, PK3_SEEK_BUFFER_SIZE,
                unzReadCurrentFile(PK3_SEEK_BUFFER_SIZE, avail))>>
           \o FS_Seek_discard(z, remainder - PK3_SEEK_BUFFER_SIZE,
                              avail - unzReadCurrentFile(PK3_SEEK_BUFFER_SIZE, avail))
    ELSE <<Call("unzReadCurrentFile", <<>>, z, 0, remainder, unzReadCurrentFile(remainder, avail))>>

\* FS_Seek_zip applying the test of offset and origin after the entry is reopened
FS_Seek_zip_lateTest(f, offset, origin, strs) ==
    LET z == fsh[f].o
        reopened == [strs EXCEPT ![z].pos = 0]
    IN  IF origin = FS_SEEK_SET
        THEN IF offset < 0
             THEN [err |-> "ERR_FATAL_seek", ret |-> -1, streams |-> reopened,
                   calls |-> <<Call("unzSetOffset", <<>>, z, 0, 0, 0),
                               Call("unzOpenCurrentFile", <<>>, z, 0, 0, 0)>>]
             ELSE [err |-> "none", ret |-> offset,
                   streams |-> [strs EXCEPT ![z].pos = Min(offset, strs[z].size)],
                   calls |-> <<Call("unzSetOffset", <<>>, z, 0, 0, 0),
                               Call("unzOpenCurrentFile", <<>>, z, 0, 0, 0)>>
                             \o FS_Seek_discard(z, offset, strs[z].size)]
        ELSE IF offset < 0 \/ origin = FS_SEEK_END
        THEN [err |-> "ERR_FATAL_seek", ret |-> -1, calls |-> <<>>, streams |-> strs]
        ELSE IF origin = FS_SEEK_CUR
        THEN [err |-> "none", ret |-> offset,
              streams |-> [strs EXCEPT ![z].pos = Min(@ + offset, strs[z].size)],
              calls |-> FS_Seek_discard(z, offset, strs[z].size - strs[z].pos)]
        ELSE [err |-> "ERR_FATAL_origin", ret |-> -1, calls |-> <<>>, streams |-> strs]

\* FS_Seek_zip discarding from the current position for FS_SEEK_SET too
FS_Seek_zip_noReopen(f, offset, origin, strs) ==
    LET z == fsh[f].o
    IN  IF offset < 0 \/ origin = FS_SEEK_END
        THEN [err |-> "ERR_FATAL_seek", ret |-> -1, calls |-> <<>>, streams |-> strs]
        ELSE IF origin \in {FS_SEEK_SET, FS_SEEK_CUR}
        THEN [err |-> "none", ret |-> offset,
              streams |-> [strs EXCEPT ![z].pos = Min(@ + offset, strs[z].size)],
              calls |-> FS_Seek_discard(z, offset, strs[z].size - strs[z].pos)]
        ELSE [err |-> "ERR_FATAL_origin", ret |-> -1, calls |-> <<>>, streams |-> strs]

\* FS_Seek on an archive handle: the fatal test of offset and origin, then for
\* FS_SEEK_SET the codec reopens the entry at its start, and for FS_SEEK_SET
\* and FS_SEEK_CUR offset bytes are read and dropped
FS_Seek_zip(f, offset, origin, strs) ==
    LET z == fsh[f].o
    IN  IF offset < 0 \/ origin = FS_SEEK_END
        THEN [err |-> "ERR_FATAL_seek", ret |-> -1, calls |-> <<>>, streams |-> strs]
        ELSE IF origin = FS_SEEK_SET
        THEN [err |-> "none", ret |-> offset,
              streams |-> [strs EXCEPT ![z].pos = Min(offset, strs[z].size)],
              calls |-> <<Call("unzSetOffset", <<>>, z, 0, 0, 0),
                          Call("unzOpenCurrentFile", <<>>, z, 0, 0, 0)>>
                        \o FS_Seek_discard(z, offset, strs[z].size)]
        ELSE IF origin = FS_SEEK_CUR
        THEN [err |-> "none", ret |-> offset,
              streams |-> [strs EXCEPT ![z].pos = Min(@ + offset, strs[z].size)],
              calls |-> FS_Seek_discard(z, offset, strs[z].size - strs[z].pos)]
        ELSE [err |-> "ERR_FATAL_origin", ret |-> -1, calls |-> <<>>, streams |-> strs]

\* the body of FS_Seek( f, offset, origin ) below its streamed test, f a slot,
\* on the native streams strs: the error it ends in, its return value, its
\* calls and the streams it leaves.  A plain file delegates to fseek, which
\* fails (-1) for a position before the start of the file
FS_Seek_body(f, offset, origin, strs) ==
    IF fsh[f].zipFile
    THEN FS_Seek_zip(f, offset, origin, strs)
    ELSE LET r == FS_FileForHandle(f, NULL)
             target == IF origin = FS_SEEK_SET THEN offset
                       ELSE IF origin = FS_SEEK_END THEN strs[r.o].size + offset
                       ELSE strs[r.o].pos + offset
         IN  IF r.err # "none"
             THEN [err |-> r.err, ret |-> 0, calls |-> <<>>, streams |-> strs]
             ELSE IF origin \notin {FS_SEEK_CUR, FS_SEEK_END, FS_SEEK_SET}
             THEN [err |-> "ERR_FATAL_origin", ret |-> 0, calls |-> <<>>, streams |-> strs]
             ELSE IF target < 0
             THEN [err |-> "none", ret |-> -1, streams |-> strs,
                   calls |-> <<Call("fseek", <<>>, r.o, origin, offset, -1)>>]
             ELSE [err |-> "none", ret |-> 0,
                   streams |-> [strs EXCEPT ![r.o].pos = target],
                   calls |-> <<Call("fseek", <<>>, r.o, origin, offset, 0)>>]

\* FS_Seek( f, offset, origin ): a streamed handle runs the body once with the
\* flag cleared, sets the flag again and then runs the body a second time
FS_Seek(f, offset, origin, crash) ==
    /\ alive
    /\ IF fs_searchpaths = <<>>
       THEN /\ ~crash
            /\ Fatal(Last("FS_Seek", f, <<>>, offset, 0, 0, "ERR_FATAL_uninit", <<>>, FALSE))
       ELSE IF f \notin Slots
       THEN Undefined(Last("FS_Seek", f, <<>>, offset, 0, 0, "undefined", <<>>, TRUE), crash)
       ELSE LET first == FS_Seek_body(f, offset, origin, streams)
                second == FS_Seek_body(f, offset, origin, first.streams)
                res == IF ~fsh[f].streamed THEN first
                       ELSE IF first.err # "none" THEN first
                       ELSE [second EXCEPT !.calls = first.calls \o second.calls]
            IN  /\ ~crash
                /\ \A s \in StreamIds : res.streams[s].pos <= MaxFileLen
                /\ fsh' = IF fsh[f].streamed /\ first.err # "none"
                          THEN [fsh EXCEPT ![f].streamed = FALSE]
                          ELSE fsh
                /\ streams' = res.streams
                /\ alive' = (res.err \notin {"ERR_FATAL_seek", "ERR_FATAL_origin"})
                /\ last' = [Last("FS_Seek", f, <<>>, offset, 0, res.ret, res.err, res.calls, FALSE)
                               EXCEPT !.origin = origin]
                /\ UNCHANGED <<disk, fs_searchpaths, fs_basepath>>

\* the streamed flag of an open handle is set: what the code that opens a file
\* for streaming does to its slot
BeginStreamedFile(f) ==
    /\ alive
    /\ f \in Occupied
    /\ ~fsh[f].streamed
    /\ fsh' = [fsh EXCEPT ![f].streamed = TRUE]
    /\ last' = Last("BeginStreamedFile", f, <<>>, 0, 0, 0, "none", <<>>, FALSE)
    /\ UNCHANGED <<disk, fs_searchpaths, fs_basepath, streams, alive>>

\* ------------------------------------------------------------- whole files
\* what malloc'ed memory holds before anything is stored in it
Garbage == {0, 99}

\* the buffer FS_ReadFile hands back without the zero it stores after len bytes
ReadFileBuffer_noTerminator(content, got, len, garbage) ==
    [j \in 1..(len + 1) |-> IF j <= got THEN content[j] ELSE garbage]

\* the buffer FS_ReadFile hands back: malloc( len + 1 ), the got bytes FS_Read
\* delivered, whatever the memory held where it delivered none, and a zero
\* stored at index len
ReadFileBuffer(content, got, len, garbage) ==
    [j \in 1..(len + 1) |->
        IF j = len + 1 THEN 0 ELSE IF j <= got THEN content[j] ELSE garbage]

\* the bytes of filename in search path element i, which holds it
ElementContent(i) ==
    IF fs_searchpaths[i].pack THEN FileData(i)
    ELSE disk[<<fs_searchpaths[i].path, fs_searchpaths[i].game>>]

\* FS_ReadFile( qpath, buffer ): FS_FOpenFileRead, and with buffer NULL
\* FS_FCloseFile, else FS_Read of the length it returned, FS_FCloseFile.
\* garbage: what the allocated buffer holds.  The result of FS_Read is not
\* looked at
FS_ReadFile_into(qpath, buffer, garbage) ==
    /\ alive
    /\ IF qpath = <<>>
       THEN /\ garbage = 0
            /\ Fatal(Last("FS_ReadFile", 0, qpath, 0, 0, 0, "ERR_FATAL_empty", <<>>, FALSE))
       ELSE IF fs_searchpaths = <<>>
       THEN /\ garbage = 0
            /\ Fatal(Last("FS_ReadFile", 0, qpath, 0, 0, 0, "ERR_FATAL_uninit", <<>>, FALSE))
       ELSE LET hit == FirstHit(qpath)
                h == FS_HandleForFile
                s == NewStream(TRUE)
                len == ElementLength(fs_searchpaths[hit])
                runs == IF fs_searchpaths[hit].pack
                        THEN {[ret |-> unzReadCurrentFile(len, len), err |-> "none", pos |-> len,
                               calls |-> <<Call("unzReadCurrentFile", <<>>, s, 0, len,
                                                unzReadCurrentFile(len, len))>>]}
                        ELSE FS_Read_loop(len, len, 0, 0, 0, len, s, <<>>)
            IN  IF hit = 0
                THEN /\ garbage = 0
                     /\ Leave(Last("FS_ReadFile", 0, qpath, 0, 0, -1, "none",
                                   WalkCalls(qpath, 0, NULL), FALSE))
                ELSE IF h = -1
                THEN /\ garbage = 0
                     /\ Leave(Last("FS_ReadFile", 0, qpath, 0, 0, 0, "ERR_DROP_nonefree", <<>>, FALSE))
                ELSE IF ~buffer
                THEN /\ garbage = 0
                     /\ s # NULL
                     /\ fsh' = [fsh EXCEPT ![h] = EmptySlot]
                     /\ last' = Last("FS_ReadFile", 0, qpath, 0, h, len, "none",
                                     WalkCalls(qpath, hit, s)
                                       \o <<Call(IF fs_searchpaths[hit].pack
                                                 THEN "unzClose" ELSE "fclose",
                                                 <<>>, s, 0, 0, 0)>>, FALSE)
                     /\ UNCHANGED <<disk, fs_searchpaths, fs_basepath, streams, alive>>
                ELSE /\ s # NULL
                     /\ \E run \in runs :
                          IF run.err # "none"
                          THEN /\ garbage = 0
                               /\ fsh' = [fsh EXCEPT ![h] =
                                            [o |-> s, zipFile |-> FALSE, unique |-> FALSE,
                                             handleSync |-> FALSE, streamed |-> FALSE, name |-> qpath]]
                               /\ streams' = Opened(s, run.pos, len)
                               /\ alive' = FALSE
                               /\ last' = [Last("FS_ReadFile", 0, qpath, 0, h, 0, run.err,
                                                WalkCalls(qpath, hit, s) \o run.calls, FALSE)
                                             EXCEPT !.buffer = TRUE]
                          ELSE /\ fsh' = [fsh EXCEPT ![h] = EmptySlot]
                               /\ streams' = streams
                               /\ alive' = alive
                               /\ last' = [Last("FS_ReadFile", 0, qpath, run.ret, h, len, "none",
                                                WalkCalls(qpath, hit, s) \o run.calls
                                                  \o <<Call(IF fs_searchpaths[hit].pack
                                                            THEN "unzClose" ELSE "fclose",
                                                            <<>>, s, 0, 0, 0)>>, FALSE)
                                             EXCEPT !.data = ReadFileBuffer(ElementContent(hit),
                                                                            run.ret, len, garbage),
                                                    !.buffer = TRUE]
                     /\ UNCHANGED <<disk, fs_searchpaths, fs_basepath>>

\* FS_ReadFile( qpath, buffer ), buffer not NULL
FS_ReadFile(qpath, garbage) == FS_ReadFile_into(qpath, TRUE, garbage)

\* FS_WriteFile( qpath, buffer, size ), buffer the size bytes given:
\* FS_FOpenFileWrite, which opens qpath in the current game directory under
\* the home path and empties it, FS_Write, FS_FCloseFile.  ok: the native
\* fopen succeeds.  The result of FS_Write is not looked at
FS_WriteFile(qpath, bytes, ok) ==
    /\ alive
    /\ IF fs_searchpaths = <<>>
       THEN /\ ok
            /\ Fatal(Last("FS_WriteFile", 0, qpath, Len(bytes), 0, 0, "ERR_FATAL_uninit", <<>>, FALSE))
       ELSE LET ospath == HomeGamePath(qpath)
                f == FS_HandleForFile
                cp == FS_CreatePath(ospath)
                s == NewStream(ok)
            IN  IF f = -1
                THEN /\ ok
                     /\ Leave(Last("FS_WriteFile", 0, qpath, Len(bytes), 0, 0, "ERR_DROP_nonefree", <<>>, FALSE))
                ELSE IF cp.ret
                THEN /\ ok
                     /\ Leave([Last("FS_WriteFile", 0, qpath, Len(bytes), 0, 0, "none",
                                    <<Call("Com_Printf", <<>>, NULL, 0, 0, 0)>>, FALSE)
                                 EXCEPT !.data = bytes])
                ELSE IF s = NULL
                THEN Leave([Last("FS_WriteFile", 0, qpath, Len(bytes), 0, 0, "none",
                                 MkdirCalls(cp.mkdirs)
                                   \o <<Call("fopen_wb", ospath, NULL, 0, 0, 0),
                                        Call("Com_Printf", <<>>, NULL, 0, 0, 0)>>, FALSE)
                              EXCEPT !.data = bytes])
                ELSE /\ qpath = FileA
                     /\ \E run \in FS_Write_loop(Len(bytes), Len(bytes), 0, 0, 0, FALSE, s, <<>>) :
                          /\ disk' = [disk EXCEPT ![<<fs_homepath, fs_gamedir>>] =
                                                     SubSeq(bytes, 1, run.pos)]
                          /\ last' = [Last("FS_WriteFile", 0, qpath, Len(bytes), f, run.ret, "none",
                                           MkdirCalls(cp.mkdirs)
                                             \o <<Call("fopen_wb", ospath, s, 0, 0, 0)>>
                                             \o run.calls
                                             \o <<Call("fclose", <<>>, s, 0, 0, 0)>>, FALSE)
                                        EXCEPT !.data = bytes]
                     /\ fsh' = [fsh EXCEPT ![f] = EmptySlot]
                     /\ UNCHANGED <<fs_searchpaths, fs_basepath, streams, alive>>

\* FS_SV_WriteFile without its FS_FCloseFile
FS_SV_WriteFile_noClose(qpath, bytes, ok) ==
    /\ alive
    /\ IF fs_searchpaths = <<>>
       THEN /\ ok
            /\ Fatal(Last("FS_SV_WriteFile", 0, qpath, Len(bytes), 0, 0, "ERR_FATAL_uninit", <<>>, FALSE))
       ELSE LET ospath == SV_OSPath(fs_homepath, qpath)
                f == FS_HandleForFile
                cp == FS_CreatePath(ospath)
                s == NewStream(ok)
            IN  IF f = -1
                THEN /\ ok
                     /\ Leave(Last("FS_SV_WriteFile", 0, qpath, Len(bytes), 0, 0, "ERR_DROP_nonefree", <<>>, FALSE))
                ELSE IF cp.ret
                THEN /\ ok
                     /\ fsh' = [fsh EXCEPT ![f].zipFile = FALSE]
                     /\ last' = Last("FS_SV_WriteFile", 0, qpath, Len(bytes), 0, 0, "none",
                                     <<Call("Com_Printf", <<>>, NULL, 0, 0, 0)>>, FALSE)
                     /\ UNCHANGED <<disk, fs_searchpaths, fs_basepath, streams, alive>>
                ELSE IF s = NULL
                THEN /\ fsh' = [fsh EXCEPT ![f] = [@ EXCEPT !.zipFile = FALSE, !.o = NULL,
                                                            !.name = qpath, !.handleSync = FALSE]]
                     /\ last' = Last("FS_SV_WriteFile", 0, qpath, Len(bytes), 0, 0, "none",
                                     MkdirCalls(cp.mkdirs)
                                       \o <<Call("fopen_wb", ospath, NULL, 0, 0, 0),
                                            Call("Com_Printf", <<>>, NULL, 0, 0, 0)>>, FALSE)
                     /\ UNCHANGED <<disk, fs_searchpaths, fs_basepath, streams, alive>>
                ELSE \E run \in FS_Write_loop(Len(bytes), Len(bytes), 0, 0, 0, FALSE, s, <<>>) :
                          /\ fsh' = [fsh EXCEPT ![f] = [@ EXCEPT !.zipFile = FALSE, !.o = s,
                                                                 !.name = qpath, !.handleSync = FALSE]]
                          /\ streams' = Opened(s, run.pos, run.pos)
                          /\ last' = Last("FS_SV_WriteFile", 0, qpath, Len(bytes), f, run.ret, "none",
                                          MkdirCalls(cp.mkdirs)
                                            \o <<Call("fopen_wb", ospath, s, 0, 0, 0)>>
                                            \o run.calls, FALSE)
                          /\ UNCHANGED <<disk, fs_searchpaths, fs_basepath, alive>>

\* FS_SV_WriteFile( qpath, buffer, size ), buffer the size bytes given:
\* FS_SV_FOpenFileWrite, which opens qpath under the home path, FS_Write,
\* FS_FCloseFile.  ok: the native fopen succeeds.  The result of FS_Write is not
\* looked at
FS_SV_WriteFile(qpath, bytes, ok) ==
    /\ alive
    /\ IF fs_searchpaths = <<>>
       THEN /\ ok
            /\ Fatal(Last("FS_SV_WriteFile", 0, qpath, Len(bytes), 0, 0, "ERR_FATAL_uninit", <<>>, FALSE))
       ELSE LET ospath == SV_OSPath(fs_homepath, qpath)
                f == FS_HandleForFile
                cp == FS_CreatePath(ospath)
                s == NewStream(ok)
            IN  IF f = -1
                THEN /\ ok
                     /\ Leave(Last("FS_SV_WriteFile", 0, qpath, Len(bytes), 0, 0, "ERR_DROP_nonefree", <<>>, FALSE))
                ELSE IF cp.ret
                THEN /\ ok
                     /\ fsh' = [fsh EXCEPT ![f].zipFile = FALSE]
                     /\ last' = Last("FS_SV_WriteFile", 0, qpath, Len(bytes), 0, 0, "none",
                                     <<Call("Com_Printf", <<>>, NULL, 0, 0, 0)>>, FALSE)
                     /\ UNCHANGED <<disk, fs_searchpaths, fs_basepath, streams, alive>>
                ELSE IF s = NULL
                THEN /\ fsh' = [fsh EXCEPT ![f] = [@ EXCEPT !.zipFile = FALSE, !.o = NULL,
                                                            !.name = qpath, !.handleSync = FALSE]]
                     /\ last' = Last("FS_SV_WriteFile", 0, qpath, Len(bytes), 0, 0, "none",
                                     MkdirCalls(cp.mkdirs)
                                       \o <<Call("fopen_wb", ospath, NULL, 0, 0, 0),
                                            Call("Com_Printf", <<>>, NULL, 0, 0, 0)>>, FALSE)
                     /\ UNCHANGED <<disk, fs_searchpaths, fs_basepath, streams, alive>>
                ELSE \E run \in FS_Write_loop(Len(bytes), Len(bytes), 0, 0, 0, FALSE, s, <<>>) :
                          /\ fsh' = [fsh EXCEPT ![f] = EmptySlot]
                          /\ streams' = streams
                          /\ last' = Last("FS_SV_WriteFile", 0, qpath, Len(bytes), f, run.ret, "none",
                                          MkdirCalls(cp.mkdirs)
                                            \o <<Call("fopen_wb", ospath, s, 0, 0, 0)>>
                                            \o run.calls
                                             \o <<Call("fclose", <<>>, s, 0, 0, 0)>>, FALSE)
                          /\ UNCHANGED <<disk, fs_searchpaths, fs_basepath, alive>>

\* ------------------------------------------------------------ pack identity
\* teststring for the pack of search path element e: pakGamename, "/",
\* pakBasename, ".iwd"
PakTestString(e) == e.game \o <<"/">> \o pakBasename(e.num) \o IwdExt

ModFF == <<"/", "m", "o", "d", ".", "f", "f">>

Usermaps == <<"u", "s", "e", "r", "m", "a", "p", "s", "/">>

\* FS_VerifyPak without the test for ";" in a usermaps name
VerifyPak_noSeparatorTest(pak) ==
    IF \E i \in 1..Len(fs_searchpaths) :
          fs_searchpaths[i].pack /\ Q_stricmp(PakTestString(fs_searchpaths[i]), pak) = 0
    THEN TRUE
    ELSE IF Q_stricmp(fs_gamedirvar \o ModFF, pak) = 0
    THEN TRUE
    ELSE IF Q_stricmpn(Usermaps, pak, 9) = 0
    THEN ~Contains(pak, <<".", ".">>)
    ELSE FALSE

\* FS_VerifyPak comparing the pack's base name and extension only
VerifyPak_anyGame(pak) ==
    IF \E i \in 1..Len(fs_searchpaths) :
          /\ fs_searchpaths[i].pack
          /\ Len(pak) >= 6
          /\ Q_stricmp(pakBasename(fs_searchpaths[i].num) \o IwdExt,
                       SubSeq(pak, Len(pak) - 5, Len(pak))) = 0
    THEN TRUE
    ELSE IF Q_stricmp(fs_gamedirvar \o ModFF, pak) = 0
    THEN TRUE
    ELSE IF Q_stricmpn(Usermaps, pak, 9) = 0
    THEN ~(Contains(pak, <<".", ".">>) \/ Contains(pak, <<";">>))
    ELSE FALSE

\* the value of FS_VerifyPak( pak ): the walk over the packs of the search
\* path, the test against "<fs_game>/mod.ff", the test of the usermaps prefix
VerifyPak(pak) ==
    IF \E i \in 1..Len(fs_searchpaths) :
          fs_searchpaths[i].pack /\ Q_stricmp(PakTestString(fs_searchpaths[i]), pak) = 0
    THEN TRUE
    ELSE IF Q_stricmp(fs_gamedirvar \o ModFF, pak) = 0
    THEN TRUE
    ELSE IF Q_stricmpn(Usermaps, pak, 9) = 0
    THEN ~(Contains(pak, <<".", ".">>) \/ Contains(pak, <<";">>))
    ELSE FALSE

\* FS_VerifyPak( pak ); it makes no test of initialization
FS_VerifyPak(pak) ==
    /\ alive
    /\ Leave(Last("FS_VerifyPak", 0, pak, 0, 0, IF VerifyPak(pak) THEN 1 ELSE 0, "none", <<>>, FALSE))

\* --------------------------------------------------------- name comparison
\* the characters the comparisons tell apart: a letter in both cases, the
\* three separators
CmpChars == {"a", "A", "/", "\\", ":"}

\* the strings compared
CmpNames == SeqsUpTo(CmpChars, MaxNameLen)

\* the value of a character as an int
CharCode(c) ==
    IF c = "a" THEN 97 ELSE IF c = "A" THEN 65 ELSE IF c = "/" THEN 47
    ELSE IF c = "\\" THEN 92 ELSE 58

\* c1 = *s1++ at index i: the character there, the terminating 0 after the last
CharAt(s, i) == IF i <= Len(s) THEN CharCode(s[i]) ELSE 0

\* the two adjustments without the mapping of ':'
CompareFold_noColon(c) ==
    LET u == IF c >= 97 /\ c <= 122 THEN c - (97 - 65) ELSE c
    IN  IF u = 92 THEN 47 ELSE u

\* the two adjustments both comparisons make to a character: a lower-case
\* letter becomes its upper-case one, '\' and ':' become '/'
CompareFold(c) ==
    LET u == IF c >= 97 /\ c <= 122 THEN c - (97 - 65) ELSE c
    IN  IF u = 92 \/ u = 58 THEN 47 ELSE u

RECURSIVE FS_FilenameCompare_loop(_, _, _)
\* the do-while loop of FS_FilenameCompare from index i on
FS_FilenameCompare_loop(s1, s2, i) ==
    LET c1 == CompareFold(CharAt(s1, i))
        c2 == CompareFold(CharAt(s2, i))
    IN  IF c1 # c2 THEN -1
        ELSE IF c1 # 0 THEN FS_FilenameCompare_loop(s1, s2, i + 1)
        ELSE 0

RECURSIVE FS_PathCmp_loop(_, _, _)
\* the do-while loop of FS_PathCmp from index i on
FS_PathCmp_loop(s1, s2, i) ==
    LET c1 == CompareFold(CharAt(s1, i))
        c2 == CompareFold(CharAt(s2, i))
    IN  IF c1 < c2 THEN -1
        ELSE IF c1 > c2 THEN 1
        ELSE IF c1 # 0 THEN FS_PathCmp_loop(s1, s2, i + 1)
        ELSE 0

\* FS_FilenameCompare( s1, s2 )
FS_FilenameCompare(s1, s2) ==
    /\ alive
    /\ Leave([Last("FS_FilenameCompare", 0, s1, 0, 0, FS_FilenameCompare_loop(s1, s2, 1),
                   "none", <<>>, FALSE) EXCEPT !.name2 = s2])

\* FS_PathCmp( s1, s2 )
FS_PathCmp(s1, s2) ==
    /\ alive
    /\ Leave([Last("FS_PathCmp", 0, s1, 0, 0, FS_PathCmp_loop(s1, s2, 1),
                   "none", <<>>, FALSE) EXCEPT !.name2 = s2])

\* ------------------------------------------------ server-local path operations
\* FS_SV_HomeRemove( path ); ok: the native remove succeeds
FS_SV_HomeRemove(path, ok) ==
    /\ alive
    /\ Leave(Last("FS_SV_HomeRemove", 0, path, 0, 0, IF ok THEN 1 ELSE 0, "none",
                  <<Call("remove", SV_OSPath(fs_homepath, path), NULL, 0, 0, IF ok THEN 0 ELSE -1)>>,
                  FALSE))

\* the copy of FS_SV_HomeCopyFile from from_ospath to to_ospath.  size: the size
\* of the source, -1 when it cannot be opened; got, put: the counts fread and
\* fwrite return; toOk: the destination can be opened.  The two streams are the
\* lowest free ones; neither is kept in the handle table
CopyFile(from_ospath, to_ospath, size, got, toOk, put) ==
    LET s == NewStream(size >= 0)
        opened == <<Call("fopen_rb", from_ospath, s, 0, 0, 0)>>
        loaded == opened \o <<Call("fseek_end", <<>>, s, 0, 0, 0),
                              Call("ftell", <<>>, s, 0, 0, size),
                              Call("fseek_set", <<>>, s, 0, 0, 0),
                              Call("malloc", <<>>, NULL, 0, size, 0),
                              Call("fread", <<>>, s, 0, size, got)>>
        closed == loaded \o <<Call("fclose", <<>>, s, 0, 0, 0)>>
        cp == FS_CreatePath(to_ospath)
        t == NewStream(toOk)
        made == closed \o MkdirCalls(cp.mkdirs) \o <<Call("fopen_wb", to_ospath, t, 0, 0, 0)>>
        wrote == made \o <<Call("fwrite", <<>>, t, 0, size, put)>>
    IN  IF s = NULL THEN [err |-> "none", calls |-> opened]
        ELSE IF got # size THEN [err |-> "ERR_FATAL_copy", calls |-> loaded]
        ELSE IF cp.ret THEN [err |-> "none", calls |-> closed]
        ELSE IF t = NULL THEN [err |-> "none", calls |-> made]
        ELSE IF put # size THEN [err |-> "ERR_FATAL_copy", calls |-> wrote]
        ELSE [err |-> "none",
              calls |-> wrote \o <<Call("fclose", <<>>, t, 0, 0, 0),
                                   Call("free", <<>>, NULL, 0, 0, 0)>>]

\* the inputs of a copy that the copy reads: one choice for each one it ignores
CopyInputs(from_ospath, to_ospath, size, got, toOk, put) ==
    /\ got \in 0..(IF size < 0 THEN 0 ELSE size)
    /\ put \in 0..(IF size < 0 THEN 0 ELSE size)
    /\ (size < 0 \/ got # size \/ FS_CreatePath(to_ospath).ret => ~toOk)
    /\ (~toOk => put = 0)

\* FS_SV_HomeCopyFile( from, to )
FS_SV_HomeCopyFile(from, to, size, got, toOk, put) ==
    LET from_ospath == SV_OSPath(fs_homepath, from)
        to_ospath == SV_OSPath(fs_homepath, to)
        c == CopyFile(from_ospath, to_ospath, size, got, toOk, put)
    IN  /\ alive
        /\ CopyInputs(from_ospath, to_ospath, size, got, toOk, put)
        /\ alive' = (c.err = "none")
        /\ last' = [Last("FS_SV_HomeCopyFile", 0, from, 0, 0, 0, c.err, c.calls, FALSE)
                      EXCEPT !.name2 = to]
        /\ UNCHANGED <<disk, fs_searchpaths, fs_basepath, fsh, streams>>

\* FS_CopyFile( fromOSPath, toOSPath ), which FS_SV_Rename falls back to
FS_CopyFile(from_ospath, to_ospath, size, got, toOk, put) ==
    CopyFile(from_ospath, to_ospath, size, got, toOk, put)

\* FS_SV_Rename( from, to ); renOk: the native rename succeeds
FS_SV_Rename(from, to, renOk, size, got, toOk, put) ==
    LET from_ospath == SV_OSPath(fs_homepath, from)
        to_ospath == SV_OSPath(fs_homepath, to)
        ren == <<Call2("rename", from_ospath, to_ospath, IF renOk THEN 0 ELSE -1)>>
        c == FS_CopyFile(from_ospath, to_ospath, size, got, toOk, put)
    IN  /\ alive
        /\ IF renOk
           THEN /\ size = -1 /\ got = 0 /\ ~toOk /\ put = 0
                /\ Leave([Last("FS_SV_Rename", 0, from, 0, 0, 0, "none", ren, FALSE)
                            EXCEPT !.name2 = to])
           ELSE /\ CopyInputs(from_ospath, to_ospath, size, got, toOk, put)
                /\ alive' = (c.err = "none")
                /\ last' = [Last("FS_SV_Rename", 0, from, 0, 0, 0, c.err,
                                 IF c.err = "none"
                                 THEN ren \o c.calls \o <<Call("remove", from_ospath, NULL, 0, 0, 0)>>
                                 ELSE ren \o c.calls, FALSE)
                              EXCEPT !.name2 = to]
                /\ UNCHANGED <<disk, fs_searchpaths, fs_basepath, fsh, streams>>

\* ------------------------------------------------------------ specifications
Wild == {NULL, WildStream}

\* the handle table: opens and closes of one file name, lookups with every
\* handle value, and the handle operations on every handle that is not open
Next ==
    \/ FS_Startup(FALSE, FALSE, 0, 0)
    \/ \E ok \in BOOLEAN : FS_SV_FOpenFileWrite(FileA, ok)
    \/ \E size \in {-1, 0} : FS_SV_FOpenFileAppend(FileA, size)
    \/ \E sizeHome \in {-1, 0}, sizeBase \in {-1, 0} : FS_SV_FOpenFileRead(FileA, sizeHome, sizeBase)
    \/ \E f \in Slots : FS_FCloseFile(f)
    \/ \E f \in HandleValues, g \in Wild, crash \in BOOLEAN : FS_filelength(f, g, crash)
    \/ \E f \in HandleValues, g \in Wild, crash \in BOOLEAN : FS_ForceFlush(f, g, crash)
    \/ \E f \in HandleValues \ Occupied, crash \in BOOLEAN : FS_FTell(f, crash)
    \/ \E f \in HandleValues \ Occupied, crash \in BOOLEAN : FS_Flush(f, crash)
    \/ \E len \in 0..1, f \in HandleValues \ Occupied, crash \in BOOLEAN : FS_Read(len, f, crash)
    \/ \E len \in 0..1, f \in HandleValues \ Occupied, g \in Wild, crash \in BOOLEAN :
          FS_Write(len, f, g, crash)
    \/ \E f \in HandleValues \ Occupied, crash \in BOOLEAN : FS_Seek(f, 0, FS_SEEK_SET, crash)
    \/ \E ok \in BOOLEAN : FS_SV_HomeRemove(FileA, ok)

Spec == Init /\ [][Next]_vars

\* the slot the next acquire returns holds nothing a failed open left behind
NextSlotClean ==
    IF FS_HandleForFile = -1 THEN TRUE ELSE fsh[FS_HandleForFile] = EmptySlot

\* opens for writing and appending with every file name, on a disk where only
\* the file "a" can be opened; handles are never closed, so the table fills.
\* An open that fails is tried when the slot it gets is clean
NextPath ==
    \/ FS_Startup(FALSE, FALSE, 0, 0)
    \/ \E fn \in Names, ok \in BOOLEAN :
          /\ ok => fn = FileA
          /\ ~ok => NextSlotClean
          /\ FS_SV_FOpenFileWrite(fn, ok)
    \/ \E fn \in Names, size \in {-1, 0} :
          /\ size >= 0 => fn = FileA
          /\ size < 0 => NextSlotClean
          /\ FS_SV_FOpenFileAppend(fn, size)

SpecPath == Init /\ [][NextPath]_vars

\* the names the server-local opens are tried with: a plain one and one that
\* names the parent directory
SVNames == {FileA, <<".", ".", "/", "a">>}

\* the server-local opens and removes, one open file at a time
NextSV ==
    \/ FS_Startup(FALSE, FALSE, 0, 0)
    \/ Occupied = {} /\ \E fn \in SVNames, ok \in BOOLEAN : FS_SV_FOpenFileWrite(fn, ok)
    \/ Occupied = {} /\ \E fn \in SVNames, size \in {-1, 0} : FS_SV_FOpenFileAppend(fn, size)
    \/ Occupied = {} /\ \E fn \in SVNames, sizeHome \in {-1, 0}, sizeBase \in {-1, 0} :
          FS_SV_FOpenFileRead(fn, sizeHome, sizeBase)
    \/ \E f \in Occupied : FS_FCloseFile(f)
    \/ Occupied = {} /\ \E fn \in Names \cup SVNames, ok \in BOOLEAN : FS_SV_HomeRemove(fn, ok)

SpecSV == Init /\ [][NextSV]_vars

\* the destinations of a copy or rename: one FS_CreatePath accepts, one it refuses
ToNames == {FileA, <<".", ".">>}

\* what the native calls of a copy can answer: the source cannot be opened, is
\* read short, the destination cannot be opened, is written short, or all is well
CopyEnvs ==
    {[size |-> -1, got |-> 0, toOk |-> FALSE, put |-> 0],
     [size |-> 1, got |-> 0, toOk |-> FALSE, put |-> 0],
     [size |-> 1, got |-> 1, toOk |-> FALSE, put |-> 0],
     [size |-> 1, got |-> 1, toOk |-> TRUE, put |-> 0],
     [size |-> 1, got |-> 1, toOk |-> TRUE, put |-> 1]}

\* copies and renames below the home path
NextCopy ==
    \/ FS_Startup(FALSE, FALSE, 0, 0)
    \/ \E from \in Names, to \in ToNames, e \in CopyEnvs :
          FS_SV_HomeCopyFile(from, to, e.size, e.got, e.toOk, e.put)
    \/ \E from \in Names, to \in ToNames : FS_SV_Rename(from, to, TRUE, -1, 0, FALSE, 0)
    \/ \E from \in Names, to \in ToNames, e \in CopyEnvs :
          FS_SV_Rename(from, to, FALSE, e.size, e.got, e.toOk, e.put)

SpecCopy == Init /\ [][NextCopy]_vars

\* transfers of every length on one open file at a time
NextIO ==
    \/ FS_Startup(FALSE, FALSE, 0, 0)
    \/ Occupied = {} /\ FS_SV_FOpenFileWrite(FileA, TRUE)
    \/ \E size \in 0..MaxFileLen : Occupied = {} /\ FS_SV_FOpenFileAppend(FileA, size)
    \/ \E size \in 0..MaxFileLen : Occupied = {} /\ FS_SV_FOpenFileRead(FileA, size, -1)
    \/ \E f \in Occupied : FS_FCloseFile(f)
    \/ \E len \in 0..MaxLen, f \in Occupied : FS_Read(len, f, FALSE)
    \/ \E len \in 0..MaxLen, f \in Occupied : FS_Write(len, f, NULL, FALSE)
    \/ \E f \in Occupied, offset \in (-1)..MaxFileLen,
          origin \in {FS_SEEK_CUR, FS_SEEK_END, FS_SEEK_SET} : FS_Seek(f, offset, origin, FALSE)
    \/ \E f \in Occupied : FS_FTell(f, FALSE)

SpecIO == Init /\ [][NextIO]_vars

\* appending through FS_FOpenFileByMode, with and without the sync flag
NextMode ==
    \/ FS_Startup(FALSE, FALSE, 0, 0)
    \/ \E mode \in AppendModes, size \in (-1)..MaxFileLen :
          Occupied = {} /\ FS_FOpenFileByMode(FileA, mode, size)
    \/ \E len \in 0..MaxLen, f \in Occupied : FS_Write(len, f, NULL, FALSE)
    \/ \E f \in Occupied : FS_Flush(f, FALSE)
    \/ \E f \in Occupied : FS_FCloseFile(f)

SpecMode == Init /\ [][NextMode]_vars

\* the layouts FS_Startup is run with: a cd path or none, a base game or
\* none, and at most two search path elements that hold the file
Layouts ==
    {c \in [cd : BOOLEAN, basegame : BOOLEAN, a : 0..MaxElements, b : 0..MaxElements] : c.a <= c.b}

\* opening for read along the whole variety of search paths
NextResolve ==
    \/ \E c \in Layouts : FS_Startup(c.cd, c.basegame, c.a, c.b)
    \/ Occupied = {} /\ FS_FOpenFileRead(FileA)
    \/ \E f \in Occupied : FS_FCloseFile(f)

SpecResolve == Init /\ [][NextResolve]_vars

\* reading and seeking in an archive entry or a loose file, whichever the one
\* search path element that holds the file gives
NextPack ==
    \/ \E b \in 0..MaxElements : FS_Startup(FALSE, FALSE, 0, b)
    \/ Occupied = {} /\ FS_FOpenFileRead(FileA)
    \/ \E f \in Occupied, len \in 0..MaxLen : FS_Read(len, f, FALSE)
    \/ \E f \in Occupied, offset \in (-1)..MaxFileLen,
          origin \in {FS_SEEK_CUR, FS_SEEK_END, FS_SEEK_SET} : FS_Seek(f, offset, origin, FALSE)
    \/ \E f \in Occupied : FS_FCloseFile(f)

SpecPack == Init /\ [][NextPack]_vars

\* the byte strings FS_WriteFile is given: one of every length up to MaxLen
WriteInputs == {[j \in 1..n |-> 900 + j] : n \in 0..MaxLen}

\* the names whole files are written and read under
FileNames == {FileA, <<".", ".", "/", "a">>}

\* writing and reading whole files, with the file held by no search path
\* element or by one, a pack or a directory
NextFile ==
    \/ \E b \in 0..MaxElements : FS_Startup(FALSE, FALSE, 0, b)
    \/ \E qpath \in FileNames, bytes \in WriteInputs, ok \in BOOLEAN : FS_WriteFile(qpath, bytes, ok)
    \/ \E qpath \in FileNames \cup {<<>>}, garbage \in Garbage : FS_ReadFile(qpath, garbage)

SpecFile == Init /\ [][NextFile]_vars

\* the server-local open for read, with the base path equal to the home
\* path, different from it, or different in case only
NextSVRead ==
    \/ FS_Startup(FALSE, FALSE, 0, 0)
    \/ \E sizeHome \in (-1)..MaxFileLen, sizeBase \in (-1)..MaxFileLen :
          FS_SV_FOpenFileRead(FileA, sizeHome, sizeBase)
    \/ \E f \in Occupied : FS_FCloseFile(f)

SpecSVRead == InitWith(CaseBasePaths) /\ [][NextSVRead]_vars

\* the names FS_VerifyPak is asked about: identities of packs, mounted or not,
\* in the case they were built in or another, the mod.ff of this and of
\* another game, names under usermaps/, and names that are none of these
VerifyNames ==
    {<<"g", "/", "p", "0", ".", "i", "w", "d">>,
     <<"G", "/", "P", "0", ".", "I", "W", "D">>,
     <<"m", "/", "p", "1", ".", "i", "w", "d">>,
     <<"g", "/", "p", "3", ".", "i", "w", "d">>,
     <<"o", "/", "p", "0", ".", "i", "w", "d">>,
     <<"x", "/", "p", "0", ".", "i", "w", "d">>,
     <<"p", "0", ".", "i", "w", "d">>,
     <<"g", "/", "p", "0", ".", "i", "w">>,
     <<"g", "/", "p", "0">>,
     <<"g", "/", "m", "o", "d", ".", "f", "f">>,
     <<"G", "/", "M", "o", "d", ".", "F", "F">>,
     <<"m", "/", "m", "o", "d", ".", "f", "f">>,
     <<"u", "s", "e", "r", "m", "a", "p", "s", "/", "x", ".", "i", "w", "d">>,
     <<"u", "s", "e", "r", "m", "a", "p", "s", "/", "x">>,
     <<"U", "s", "e", "r", "M", "a", "p", "s", "/", "x", ".", "i", "w", "d">>,
     <<"u", "s", "e", "r", "m", "a", "p", "s", "/">>,
     <<"u", "s", "e", "r", "m", "a", "p", "s">>,
     <<"u", "s", "e", "r", "m", "a", "p", "s", "/", ".", ".">>,
     <<"u", "s", "e", "r", "m", "a", "p", "s", "/", ".", ".", "/", "g", "/", "p", "0", ".", "i", "w", "d">>,
     <<"u", "s", "e", "r", "m", "a", "p", "s", "/", "a", ";", "b">>,
     <<"x", "u", "s", "e", "r", "m", "a", "p", "s", "/", "a">>,
     <<"a">>,
     <<>>}

\* verifying pack names against every search path FS_Startup can build
NextPak ==
    \/ \E cd \in BOOLEAN, basegame \in BOOLEAN : FS_Startup(cd, basegame, 0, 0)
    \/ \E pak \in VerifyNames : FS_VerifyPak(pak)

SpecPak == Init /\ [][NextPak]_vars

\* archive handles of their own and on the stream of their pack, opened and
\* closed in any order, empty slots closed too
NextShare ==
    \/ \E b \in 0..MaxElements : FS_Startup(FALSE, FALSE, 0, b)
    \/ \E uniqueFILE \in BOOLEAN : FS_FOpenFileRead_z(FileA, uniqueFILE)
    \/ \E f \in Slots : FS_FCloseFile(f)

SpecShare == Init /\ [][NextShare]_vars

\* whole files read and written while other handles are open
NextWhole ==
    \/ \E b \in {0, 1, NumPaks + 1} : FS_Startup(FALSE, FALSE, 0, b)
    \/ \E ok \in BOOLEAN : FS_SV_FOpenFileWrite(FileA, ok)
    \/ \E f \in Occupied : FS_FCloseFile(f)
    \/ \E qpath \in FileNames, buffer \in BOOLEAN, garbage \in Garbage :
          FS_ReadFile_into(qpath, buffer, garbage)
    \/ \E qpath \in FileNames, ok \in BOOLEAN : FS_WriteFile(qpath, <<901>>, ok)
    \/ \E qpath \in FileNames, bytes \in {<<>>, <<901, 902>>}, ok \in BOOLEAN :
          FS_SV_WriteFile(qpath, bytes, ok)

SpecWhole == Init /\ [][NextWhole]_vars

\* reading, writing and seeking on a handle whose streamed flag is set or
\* clear
NextStream ==
    \/ \E b \in {0, 1, NumPaks + 1} : FS_Startup(FALSE, FALSE, 0, b)
    \/ Occupied = {} /\ FS_FOpenFileRead(FileA)
    \/ Occupied = {} /\ FS_SV_FOpenFileWrite(FileA, TRUE)
    \/ \E f \in Occupied, len \in 0..MaxLen : ~fsh[f].zipFile /\ FS_Write(len, f, NULL, FALSE)
    \/ \E f \in Occupied : BeginStreamedFile(f)
    \/ \E f \in Occupied, len \in {1, MaxLen} : FS_Read(len, f, FALSE)
    \/ \E f \in Occupied, offset \in 0..MaxFileLen,
          origin \in {FS_SEEK_CUR, FS_SEEK_SET} : FS_Seek(f, offset, origin, FALSE)
    \/ \E f \in Occupied : FS_FCloseFile(f)

SpecStream == Init /\ [][NextStream]_vars

\* a name in a directory of its own
DirNames == {FileA, <<"a", "/", "a">>, <<".", ".", "/", "a">>}

\* the server-local opens for writing, appending and reading, their
\* directories created or not
NextDirs ==
    \/ FS_Startup(FALSE, FALSE, 0, 0)
    \/ \E fn \in DirNames, ok \in BOOLEAN, failed \in SUBSET (1..MaxLen) :
          FS_SV_FOpenFileWrite_dirs(fn, ok, failed)
    \/ \E fn \in DirNames, size \in {-1, 0}, failed \in SUBSET (1..MaxLen) :
          FS_SV_FOpenFileAppend_dirs(fn, size, failed)
    \/ \E sizeHome \in {-1, 0}, sizeBase \in {-1, 0} :
          FS_SV_FOpenFileRead(FileA, sizeHome, sizeBase)
    \/ \E f \in Occupied : FS_FCloseFile(f)

SpecDirs == Init /\ [][NextDirs]_vars

\* archive handles of their own and on the stream of their pack and plain
\* handles, opened, read, written, sought and closed in any order, empty slots
\* closed too; the file is held by the first pack, at most two handles are
\* open at a time, and a transfer starts at the start of the file
NextTable ==
    \/ FS_Startup(FALSE, FALSE, 0, 1)
    \/ \E uniqueFILE \in BOOLEAN :
          Cardinality(Occupied) < 2 /\ FS_FOpenFileRead_z(FileA, uniqueFILE)
    \/ \E ok \in BOOLEAN : Cardinality(Occupied) < 2 /\ FS_SV_FOpenFileWrite(FileA, ok)
    \/ \E f \in Occupied : streams[fsh[f].o].pos = 0 /\ FS_Read(1, f, FALSE)
    \/ \E f \in Occupied :
          ~fsh[f].zipFile /\ streams[fsh[f].o].pos = 0 /\ FS_Write(1, f, NULL, FALSE)
    \/ \E f \in Occupied : FS_Seek(f, 0, FS_SEEK_SET, FALSE)
    \/ \E f \in Slots : FS_FCloseFile(f)

SpecTable == Init /\ [][NextTable]_vars

\* the state before a comparison: nothing mounted or open, the two names to
\* compare chosen
InitCmp ==
    \E s1 \in CmpNames, s2 \in CmpNames :
        /\ fs_searchpaths = <<>>
        /\ fs_basepath \in BasePaths
        /\ fsh = [i \in Slots |-> EmptySlot]
        /\ streams = [s \in StreamIds \cup PakStreamIds |-> ClosedStream]
        /\ alive = TRUE
        /\ disk = [k \in DiskKeys |-> NoFile]
        /\ last = [Last("none", 0, s1, 0, 0, 0, "none", <<>>, FALSE) EXCEPT !.name2 = s2]

\* comparing the two names
NextCmp ==
    \/ FS_FilenameCompare(last.name, last.name2)
    \/ FS_PathCmp(last.name, last.name2)

SpecCmp == InitCmp /\ [][NextCmp]_vars

\* ------------------------------------------------------------------- claims
OpenOps == {"FS_SV_FOpenFileWrite", "FS_SV_FOpenFileAppend", "FS_SV_FOpenFileRead"}

\* the native open of the last operation gave a stream
NativeOpened(l) ==
    \E k \in 1..Len(l.calls) :
        l.calls[k].fn \in {"fopen_wb", "fopen_ab", "fopen_rb"} /\ l.calls[k].stream # NULL

\* C1 (as the code has it): slot 0 is never handed out, so the table holds
\* MAX_FILE_HANDLES - 1 handles; an open on an initialized filesystem ends in
\* the "none free" error exactly when MAX_FILE_HANDLES - 1 slots are occupied,
\* and with fewer occupied an open whose native open succeeds returns a handle
C1_NoneFreeWhenAllButSlotZeroOccupied ==
    (last.op \in OpenOps /\ last.init) =>
        /\ (last.err = "ERR_DROP_nonefree") = (Cardinality(last.pre) = MAX_FILE_HANDLES - 1)
        /\ (Cardinality(last.pre) < MAX_FILE_HANDLES - 1 /\ NativeOpened(last)) => last.h # 0

\* C1 witness: MAX_FILE_HANDLES - 1 opens succeeded and the next one found none free
C1_Witness ==
    /\ last.op \in OpenOps
    /\ last.err = "ERR_DROP_nonefree"
    /\ last.pre = 1..(MAX_FILE_HANDLES - 1)

\* C1 as stated: "none free" is not reached before MAX_FILE_HANDLES handles are open
C1_NoneFreeNotBeforeCapacity ==
    (last.op \in OpenOps /\ last.err = "ERR_DROP_nonefree") =>
        Cardinality(last.pre) >= MAX_FILE_HANDLES

\* C2: an open never hands back an occupied slot: the handle it returns is a
\* slot from 1 on that was free and is occupied now, slot 0 is never occupied,
\* and directly after FS_FCloseFile( h ) slot h is free and the next acquire
\* returns it unless a lower slot is free too
C2_HandlesDistinctAndFreedOnClose ==
    /\ 0 \notin Occupied
    /\ (last.op \in OpenOps /\ last.h # 0) =>
          /\ last.h \in 1..(MAX_FILE_HANDLES - 1)
          /\ last.h \notin last.pre
          /\ Occupied = last.pre \cup {last.h}
    /\ (last.op = "FS_FCloseFile" /\ last.f \in last.pre) =>
          /\ fsh[last.f].o = NULL
          /\ Occupied = last.pre \ {last.f}
          /\ FS_HandleForFile \in 1..last.f
          /\ (\A j \in 1..(last.f - 1) : j \in Occupied) => FS_HandleForFile = last.f

\* C2 witness: slot 1 was closed while slot 2 stays open, and the next acquire returns 1
C2_Witness ==
    /\ last.op = "FS_FCloseFile"
    /\ last.f = 1
    /\ last.pre = {1, 2}
    /\ Occupied = {2}
    /\ FS_HandleForFile = 1

\* C3 (as the code has it): FS_FCloseFile( f ) leaves slot f zeroed and every
\* other slot as it was; on an occupied slot it closes the stream of the slot
\* once and returns true; on an empty slot it issues no close, returns false
\* and changes no stream and nothing of the slot but a name a failed open left
C3_CloseZeroesSlotOnce ==
    [][last'.op = "FS_FCloseFile" =>
         /\ fsh'[last'.f] = EmptySlot
         /\ \A i \in Slots \ {last'.f} : fsh'[i] = fsh[i]
         /\ last'.f \in last'.pre =>
               /\ last'.ret = 1
               /\ last'.calls = <<Call("fclose", <<>>, fsh[last'.f].o, 0, 0, 0)>>
               /\ ~streams'[fsh[last'.f].o].open
         /\ last'.f \notin last'.pre =>
               /\ last'.ret = 0
               /\ last'.calls = <<>>
               /\ streams' = streams
               /\ fsh' = [fsh EXCEPT ![last'.f].name = <<>>]]_vars

\* C3 witness: a close of slot 1, which is empty, returned false
C3_Witness ==
    /\ last.op = "FS_FCloseFile"
    /\ last.f = 1
    /\ last.pre = {2}
    /\ last.ret = 0
    /\ last.calls = <<>>
    /\ fsh[1] = EmptySlot

\* C3 as stated: a close of an empty slot leaves every slot of the table unchanged
C3_CloseOfEmptySlotChangesNothing ==
    [][(last'.op = "FS_FCloseFile" /\ last'.f \notin last'.pre) =>
          /\ fsh' = fsh
          /\ last'.ret = 0
          /\ last'.calls = <<>>]_vars

\* C4 as stated: FS_FileForHandle, as FS_filelength and FS_ForceFlush call it,
\* ends in its error for every handle that is not an occupied slot and never
\* indexes fsh outside its slots
C4_LookupRejectsAndStaysInTable ==
    last.op \in {"FS_filelength", "FS_ForceFlush"} =>
        /\ ~last.oob
        /\ last.f \notin last.pre => last.err \in {"ERR_DROP_range", "ERR_DROP_null"}

\* C5 as stated: FS_Read, FS_Write, FS_Seek, FS_FTell and FS_Flush on an
\* initialized filesystem with a handle that is out of range or whose slot is
\* empty end in the invalid handle error and hand no NULL stream to a native call
C5_InvalidHandleEndsInError ==
    (last.op \in {"FS_Read", "FS_Write", "FS_Seek", "FS_FTell", "FS_Flush"}
       /\ last.init /\ last.f \notin last.pre) =>
        /\ last.err \in {"ERR_DROP_range", "ERR_DROP_null"}
        /\ \A k \in 1..Len(last.calls) : last.calls[k].stream # NULL

\* C6 as stated: every operation called while the search path list is empty
\* ends in the fatal "call made without initialization" and issues no native call
C6_UninitializedUseEndsInError ==
    (last.op \notin {"none", "FS_Startup"} /\ ~last.init) =>
        /\ last.err = "ERR_FATAL_uninit"
        /\ last.calls = <<>>

\* the name has a ".." or a "::" in it
RefusedName(name) == Contains(name, <<".", ".">>) \/ Contains(name, <<":", ":">>)

\* C7 (as the code has it): for a file name with ".." or "::" in it FS_CreatePath
\* refuses and creates no directory, and FS_SV_FOpenFileWrite and
\* FS_SV_FOpenFileAppend, called on an initialized filesystem with a slot free,
\* issue no native call, occupy no slot, do not abort and return 0
C7_RefusedNameOpensNothing ==
    (last.op \in {"FS_SV_FOpenFileWrite", "FS_SV_FOpenFileAppend"} /\ RefusedName(last.name)) =>
        /\ FS_CreatePath(SV_OSPath(fs_homepath, last.name)) = [ret |-> TRUE, mkdirs |-> <<>>]
        /\ (last.init /\ Cardinality(last.pre) < MAX_FILE_HANDLES - 1) =>
              /\ last.err = "none"
              /\ last.calls = <<>>
              /\ last.h = 0
              /\ last.ret = 0
              /\ alive
              /\ Occupied = last.pre

\* C7 witness: an append to the name "::" with one file open returned 0
C7_Witness ==
    /\ last.op = "FS_SV_FOpenFileAppend"
    /\ last.name = <<":", ":">>
    /\ last.init
    /\ last.pre = {1}
    /\ last.err = "none"
    /\ last.h = 0
    /\ last.calls = <<>>

\* C7 as stated: on an initialized filesystem every open for writing or
\* appending of a name with ".." or "::" ends without an error and returns 0
C7_RefusedNameAlwaysReturnsZero ==
    (last.op \in {"FS_SV_FOpenFileWrite", "FS_SV_FOpenFileAppend"}
       /\ RefusedName(last.name) /\ last.init) =>
        /\ last.err = "none"
        /\ last.calls = <<>>
        /\ last.h = 0

\* C8 as stated: FS_SV_FOpenFileRead of a name with a parent directory segment
\* returns handle 0 and length 0 and opens no native file
C8_ReadOfParentSegmentNotFound ==
    (last.op = "FS_SV_FOpenFileRead" /\ last.init /\ HasParentSegment(last.name)) =>
        /\ last.h = 0
        /\ last.ret = 0
        /\ ~NativeOpened(last)

\* C9 as stated: every native open, rename, remove and mkdir of a server-local
\* operation names a path inside the home tree, or inside the home or the base
\* tree for the opens of FS_SV_FOpenFileRead
C9_NativePathsInsideHomeTree ==
    \A k \in 1..Len(last.calls) :
        last.calls[k].fn \in {"fopen_wb", "fopen_ab", "fopen_rb", "rename", "remove", "mkdir"} =>
            /\ \/ InsideTree(last.calls[k].path, fs_homepath)
               \/ /\ last.op = "FS_SV_FOpenFileRead"
                  /\ InsideTree(last.calls[k].path, fs_basepath)
            /\ last.calls[k].fn = "rename" => InsideTree(last.calls[k].path2, fs_homepath)

\* C10: FS_Read and FS_Write on an open plain file: when exactly one native
\* transfer returned 0 and every other one a positive count, the call returns
\* len, the counts add up to len, and each native transfer starts in the buffer
\* where the one before it ended and asks for all that is left
C10_OneEmptyTransferStillFull ==
    LET t == SelectSeq(last.calls, LAMBDA c : c.fn \in {"fread", "fwrite"})
        RECURSIVE Sum(_)
        Sum(k) == IF k = 0 THEN 0 ELSE t[k].r + Sum(k - 1)
    IN  (/\ last.op \in {"FS_Read", "FS_Write"}
         /\ last.f \in last.pre
         /\ Cardinality({k \in 1..Len(t) : t[k].r = 0}) = 1
         /\ \A k \in 1..Len(t) : t[k].r >= 0) =>
            /\ last.ret = last.len
            /\ last.err = "none"
            /\ Sum(Len(t)) = last.len
            /\ \A k \in 1..Len(t) :
                  /\ t[k].off = Sum(k - 1)
                  /\ t[k].n = last.len - Sum(k - 1)
                  /\ t[k].stream = fsh[last.f].o

\* C10 witness: a read of 3 bytes whose native reads returned 1, 0 and 2
C10_Witness ==
    /\ last.op = "FS_Read"
    /\ last.len = 3
    /\ [k \in 1..Len(last.calls) |-> last.calls[k].r] = <<1, 0, 2>>
    /\ last.ret = 3

\* C11: FS_Read on an open plain file.  A native read that returns -1 ends the
\* process; otherwise the call returns the sum of the counts the native reads
\* returned: len when they add up to len, and a count below len, as a normal
\* result, exactly when a second native read of the call returned 0
C11_ReadReturnsBytesDelivered ==
    LET t == SelectSeq(last.calls, LAMBDA c : c.fn = "fread")
        zeros == {k \in 1..Len(t) : t[k].r = 0}
        RECURSIVE Sum(_)
        Sum(k) == IF k = 0 THEN 0 ELSE t[k].r + Sum(k - 1)
    IN  (last.op = "FS_Read" /\ last.init /\ last.f \in last.pre) =>
            IF \E k \in 1..Len(t) : t[k].r = -1
            THEN /\ last.err = "ERR_FATAL_read"
                 /\ ~alive
                 /\ t[Len(t)].r = -1
            ELSE /\ last.err = "none"
                 /\ alive
                 /\ last.ret = Sum(Len(t))
                 /\ last.ret \in 0..last.len
                 /\ (last.ret < last.len) = (Cardinality(zeros) = 2)
                 /\ Cardinality(zeros) = 2 => t[Len(t)].r = 0
                 /\ Cardinality(zeros) <= 2

\* C11 witness: a read of 3 bytes got 1 byte, then nothing twice, and returned 1
C11_Witness ==
    /\ last.op = "FS_Read"
    /\ last.len = 3
    /\ [k \in 1..Len(last.calls) |-> last.calls[k].r] = <<1, 0, 0>>
    /\ last.ret = 1
    /\ last.err = "none"
    /\ alive

\* C12 (as the code has it): FS_Write on an initialized filesystem and an open
\* plain file never ends the process.  It returns len when the native writes
\* add up to len; when a native write returns -1 or a second one returns 0 it
\* logs a warning and returns 0, whatever the stream had accepted before
C12_WriteReturnsLenOrZero ==
    LET t == SelectSeq(last.calls, LAMBDA c : c.fn = "fwrite")
        RECURSIVE Sum(_)
        Sum(k) == IF k = 0 THEN 0 ELSE (IF t[k].r > 0 THEN t[k].r ELSE 0) + Sum(k - 1)
        stopped == \/ \E k \in 1..Len(t) : t[k].r = -1
                   \/ Cardinality({k \in 1..Len(t) : t[k].r = 0}) = 2
        warned == \E k \in 1..Len(last.calls) : last.calls[k].fn = "Com_Printf"
    IN  (last.op = "FS_Write" /\ last.init /\ last.f \in last.pre) =>
            /\ alive
            /\ last.err = "none"
            /\ Sum(Len(t)) \in 0..last.len
            /\ stopped = warned
            /\ ~stopped => (last.ret = last.len /\ Sum(Len(t)) = last.len)
            /\ stopped => (last.ret = 0 /\ Sum(Len(t)) < last.len)

\* C12 witness: a write of 3 bytes whose native writes returned 1, 0 and 0
\* logged a warning and returned 0
C12_Witness ==
    /\ last.op = "FS_Write"
    /\ last.len = 3
    /\ [k \in 1..Len(last.calls) |-> last.calls[k].r] = <<1, 0, 0, 0>>
    /\ last.calls[4].fn = "Com_Printf"
    /\ last.ret = 0
    /\ alive

\* C12 as stated: the return value of FS_Write on an open plain file is the
\* number of bytes the native stream accepted during the call
C12_WriteReturnsBytesWritten ==
    LET t == SelectSeq(last.calls, LAMBDA c : c.fn = "fwrite")
        RECURSIVE Sum(_)
        Sum(k) == IF k = 0 THEN 0 ELSE (IF t[k].r > 0 THEN t[k].r ELSE 0) + Sum(k - 1)
    IN  (last.op = "FS_Write" /\ last.init /\ last.f \in last.pre) =>
            /\ alive
            /\ last.ret = Sum(Len(t))

\* the last operation ended with a native flush that no native write follows
FlushedAfterWrites(l) ==
    \E k \in 1..Len(l.calls) :
        /\ l.calls[k].fn = "fflush"
        /\ \A j \in 1..Len(l.calls) : l.calls[j].fn = "fwrite" => j < k

\* C13: an FS_Write on an open handle whose sync flag is set flushes the
\* native stream before it returns, on every return path, full write and
\* short or failed write alike; on a handle whose sync flag is clear it
\* issues no flush
C13_SyncWriteFlushesOnEveryReturn ==
    (last.op = "FS_Write" /\ last.err = "none" /\ last.f \in Occupied) =>
        IF fsh[last.f].handleSync
        THEN FlushedAfterWrites(last)
        ELSE \A k \in 1..Len(last.calls) : last.calls[k].fn # "fflush"

\* C14: FS_Seek on an archive-backed handle with a negative offset or with
\* origin FS_SEEK_END ends the process in the fatal seek error before any
\* codec call is made, and leaves the read position of the entry as it was
C14_ArchiveSeekBackwardsIsFatal ==
    [][(/\ last'.op = "FS_Seek"
        /\ last'.init
        /\ last'.f \in Slots
        /\ fsh[last'.f].zipFile
        /\ (last'.len < 0 \/ last'.origin = FS_SEEK_END))
       => (/\ last'.err = "ERR_FATAL_seek"
           /\ ~alive'
           /\ last'.calls = <<>>
           /\ streams' = streams
           /\ fsh' = fsh)]_vars

\* a seek to a negative offset from the start, on an archive entry that has
\* been read into, has ended in the fatal error
C14_Witness ==
    /\ last.op = "FS_Seek"
    /\ last.f \in Occupied
    /\ fsh[last.f].zipFile
    /\ last.len < 0
    /\ last.origin = FS_SEEK_SET
    /\ streams[fsh[last.f].o].pos > 0
    /\ last.err = "ERR_FATAL_seek"
    /\ ~alive

\* C15: after FS_Seek( h, k, FS_SEEK_SET ) with k >= 0, from whatever position
\* the handle was at, an FS_Read of n bytes with k + n within the content
\* delivers, on an archive-backed handle, all n bytes, and they are bytes
\* k+1 .. k+n of the content: the very bytes the same seek and read deliver on
\* a plain-file handle when its native reads deliver in full
C15_SeekSetThenReadSameBytes ==
    (/\ last.op = "FS_Read"
     /\ last.seek.ok
     /\ last.seek.origin = FS_SEEK_SET
     /\ last.seek.offset >= 0
     /\ last.f \in Occupied
     /\ last.seek.offset + last.len <= streams[fsh[last.f].o].size)
    => /\ fsh[last.f].zipFile => last.ret = last.len
       /\ last.ret = last.len => last.data = Delivered(last.seek.offset, last.len)

\* an archive entry was read past byte 1, then FS_Seek set it to offset 1 and
\* the read after it delivered bytes 2 and 3
C15_Witness ==
    /\ last.op = "FS_Read"
    /\ last.f \in Occupied
    /\ fsh[last.f].zipFile
    /\ last.seek.ok
    /\ last.seek.origin = FS_SEEK_SET
    /\ last.seek.offset = 1
    /\ last.len = 2
    /\ last.data = <<2, 3>>

RECURSIVE Transferred(_)
\* the bytes the native reads or writes logged in calls moved
Transferred(calls) ==
    IF calls = <<>> THEN 0
    ELSE (IF Head(calls).fn \in {"fread", "fwrite", "unzReadCurrentFile"} /\ Head(calls).r > 0
          THEN Head(calls).r ELSE 0) + Transferred(Tail(calls))

WalkRank(e) ==
    LET scope == IF e.game = fs_gamedirvar THEN 0 ELSE IF e.game = fs_basegame THEN 1 ELSE 2
        origin == IF e.path = fs_homepath THEN 0 ELSE IF e.path = fs_basepath THEN 1 ELSE 2
        within == IF e.pack THEN NumPaks - 1 - e.num ELSE NumPaks
    IN  (scope * 3 + origin) * (NumPaks + 1) + within

\* the search path elements that hold filename
Holders(filename) ==
    {i \in 1..Len(fs_searchpaths) : ElementHolds(fs_searchpaths[i], filename)}

Fopens(l) == SelectSeq(l.calls, LAMBDA c : c.fn = "fopen_rb")

\* what C18 says of a server-local open for read, differ telling whether the
\* home and the base root count as different
SVReadAsClaimed(differ) ==
    LET opens == Fopens(last)
        n == Len(opens)
    IN  /\ n >= 1
        /\ opens[1].path = SV_OSPath(fs_homepath, last.name)
        /\ n = (IF opens[1].stream = NULL /\ differ THEN 2 ELSE 1)
        /\ n = 2 => opens[2].path = SV_OSPath(fs_basepath, last.name)
        /\ IF opens[n].stream = NULL
           THEN last.h = 0 /\ last.ret = 0
           ELSE /\ last.h \in Occupied
                /\ fsh[last.h].o = opens[n].stream
                /\ ~fsh[last.h].zipFile
                /\ last.ret = streams[opens[n].stream].size

Fold(name) ==
    [k \in 1..Len(name) |->
        IF \E i \in 1..Len(UpperLetters) : UpperLetters[i] = name[k]
        THEN LowerLetters[CHOOSE i \in 1..Len(UpperLetters) : UpperLetters[i] = name[k]]
        ELSE name[k]]

\* "<pakGamename>/<pakBasename>.iwd" of every pack in the search path list
MountedIdentities ==
    {fs_searchpaths[i].game \o <<"/">> \o pakBasename(fs_searchpaths[i].num) \o IwdExt :
        i \in {j \in 1..Len(fs_searchpaths) : fs_searchpaths[j].pack}}

\* name begins with prefix
BeginsWith(name, prefix) ==
    Len(name) >= Len(prefix) /\ SubSeq(name, 1, Len(prefix)) = prefix

\* two names are the same, letter case counting or not
Same(a, b, ignoreCase) == IF ignoreCase THEN Fold(a) = Fold(b) ELSE a = b

\* what C19 says FS_VerifyPak accepts, with names compared without regard to
\* case or case-sensitively
AcceptedAsClaimed(name, ignoreCase) ==
    \/ \E id \in MountedIdentities : Same(id, name, ignoreCase)
    \/ Same(fs_gamedirvar \o ModFF, name, ignoreCase)
    \/ /\ Len(name) >= Len(Usermaps)
       /\ Same(Usermaps, SubSeq(name, 1, Len(Usermaps)), ignoreCase)
       /\ ~Contains(name, <<".", ".">>)
       /\ ~Contains(name, <<";">>)

\* C19 (as the code has it): FS_VerifyPak( name ) returns true if and only if
\* name is, compared without regard to case, "<pakGamename>/<pakBasename>.iwd"
\* of some pack in the search path list, or "<fs_game>/mod.ff", or begins
\* with "usermaps/" and contains neither ".." nor ";"
C19_AcceptsIdentitiesIgnoringCase ==
    last.op = "FS_VerifyPak" =>
        (last.ret = 1 <=> AcceptedAsClaimed(last.name, TRUE))

\* with packs mounted, the identity of one of them was accepted, in the case it
\* was built in
C19_Witness ==
    /\ last.op = "FS_VerifyPak"
    /\ last.init
    /\ last.name \in MountedIdentities
    /\ last.ret = 1

\* C19 as claimed: the same with the names compared case-sensitively
C19_AcceptsIdentitiesCaseSensitively ==
    last.op = "FS_VerifyPak" =>
        (last.ret = 1 <=> AcceptedAsClaimed(last.name, FALSE))

\* name is "<dir>/<base>.iwd" with one separator and a dir and a base that
\* are not empty
WellFormedIwd(name) ==
    /\ Len(name) > Len(IwdExt)
    /\ SubSeq(name, Len(name) - Len(IwdExt) + 1, Len(name)) = IwdExt
    /\ Cardinality({k \in 1..Len(name) : name[k] = "/"}) = 1
    /\ name[1] # "/"
    /\ name[Len(name) - Len(IwdExt)] # "/"

\* C20 (as the code has it): a well-formed archive name that is not, compared
\* without regard to case, the identity of a pack in the search path list,
\* and that does not begin with "usermaps/", is refused
C20_UnmountedArchiveOutsideUsermapsRefused ==
    (/\ last.op = "FS_VerifyPak"
     /\ WellFormedIwd(last.name)
     /\ \A id \in MountedIdentities : ~Same(id, last.name, TRUE)
     /\ ~BeginsWith(Fold(last.name), Usermaps))
    => last.ret = 0

\* with packs mounted, the well-formed name of a pack of a game directory that
\* is not in the search path was refused
C20_Witness ==
    /\ last.op = "FS_VerifyPak"
    /\ last.init
    /\ last.name = <<"x", "/", "p", "0", ".", "i", "w", "d">>
    /\ MountedIdentities # {}
    /\ last.name \notin MountedIdentities
    /\ last.ret = 0

\* C20 as claimed: every well-formed archive name that is not the identity of
\* a pack in the search path list is refused
C20_UnmountedArchiveRefused ==
    (/\ last.op = "FS_VerifyPak"
     /\ WellFormedIwd(last.name)
     /\ last.name \notin MountedIdentities)
    => last.ret = 0

\* name with its letters in lower case and '\' and ':' turned into '/'
Canon(name) ==
    [k \in 1..Len(name) |->
        IF name[k] \in {"\\", ":"} THEN "/" ELSE Fold(name)[k]]

\* C21: FS_FilenameCompare and FS_PathCmp return 0 exactly when the two names
\* are equal after folding letter case and mapping '\' and ':' to '/', so
\* they agree on equality; FS_PathCmp( a, b ) = -FS_PathCmp( b, a ), and
\* FS_PathCmp is transitive
C21_ComparisonsAgreeAndOrder ==
    LET a == last.name
        b == last.name2
    IN  /\ last.op \in {"FS_FilenameCompare", "FS_PathCmp"} =>
              /\ last.ret = 0 <=> Canon(a) = Canon(b)
              /\ FS_FilenameCompare_loop(a, b, 1) = 0 <=> FS_PathCmp_loop(a, b, 1) = 0
        /\ last.op = "FS_PathCmp" =>
              /\ last.ret = 0 - FS_PathCmp_loop(b, a, 1)
              /\ \A c \in CmpNames :
                    (last.ret <= 0 /\ FS_PathCmp_loop(b, c, 1) <= 0)
                        => FS_PathCmp_loop(a, c, 1) <= 0

\* two names that differ in case and in separator compared equal, and two
\* names of different length compared in order
C21_Witness ==
    \/ /\ last.op = "FS_FilenameCompare"
       /\ last.name = <<"a", ":">>
       /\ last.name2 = <<"A", "/">>
       /\ last.ret = 0
    \/ /\ last.op = "FS_PathCmp"
       /\ last.name = <<"\\">>
       /\ last.name2 = <<"/", "a">>
       /\ last.ret = -1

\* the last call opened no file: every fopen it made returned NULL
NoFopenSucceeded ==
    \A k \in 1..Len(last.calls) :
        last.calls[k].fn = "fopen_rb" => last.calls[k].stream = NULL

\* the slots FS_HandleForFile scans
ScannedSlots == 1..(MAX_FILE_HANDLES - 1)

\* C22: on an initialized filesystem FS_SV_FOpenFileRead of a name that can
\* be opened under no root returns handle 0 and length 0 and occupies no slot
\* while a slot is free; with every slot occupied it ends in the "none free"
\* error before any fopen; in neither case does the process end
C22_MissingFileIsNotFoundWhileASlotIsFree ==
    (last.op = "FS_SV_FOpenFileRead" /\ last.init) =>
        /\ alive
        /\ IF last.pre = ScannedSlots
           THEN last.err = "ERR_DROP_nonefree" /\ last.calls = <<>> /\ Occupied = last.pre
           ELSE NoFopenSucceeded =>
                    /\ Occupied = last.pre
                    /\ last.err = "none"
                    /\ last.h = 0
                    /\ last.ret = 0
                    /\ last.calls # <<>>

\* a missing name was looked for under the home and the base path while one
\* slot was free, and once more with none free
C22_Witness ==
    /\ last.op = "FS_SV_FOpenFileRead"
    /\ last.init
    /\ \/ /\ Cardinality(last.pre) = MAX_FILE_HANDLES - 2
          /\ Len(last.calls) = 2
          /\ last.h = 0
       \/ /\ last.pre = ScannedSlots
          /\ last.err = "ERR_DROP_nonefree"

\* C22 as stated: in every state of the handle table, the full one too, the
\* open of a missing name returns handle 0 and length 0
C22_MissingFileIsNotFoundAlways ==
    (last.op = "FS_SV_FOpenFileRead" /\ last.init /\ NoFopenSucceeded) =>
        /\ alive
        /\ last.err = "none"
        /\ last.h = 0
        /\ last.ret = 0

\* the native calls named fn in a call log
CallsOf(calls, fn) == SelectSeq(calls, LAMBDA c : c.fn = fn)

\* the stream of every pack of the search path is open
PakHandlesOpen ==
    \A i \in 1..Len(fs_searchpaths) :
        fs_searchpaths[i].pack => streams[PakHandle(i)].open

\* a step that closes an archive-backed handle closes the current entry of
\* its stream, and closes the stream itself, open until then and closed
\* after, exactly if the handle's unique flag is set
ArchiveCloseStep ==
    (last'.op = "FS_FCloseFile" /\ fsh[last'.f].zipFile) =>
        LET z == fsh[last'.f].o
        IN  /\ CallsOf(last'.calls, "unzCloseCurrentFile")
                  = <<Call("unzCloseCurrentFile", <<>>, z, 0, 0, 0)>>
            /\ CallsOf(last'.calls, "unzClose")
                  = IF fsh[last'.f].unique
                    THEN <<Call("unzClose", <<>>, z, 0, 0, 0)>>
                    ELSE <<>>
            /\ fsh[last'.f].unique => (streams[z].open /\ ~streams'[z].open)
            /\ \A s \in DOMAIN streams : s # z => streams'[s] = streams[s]
            /\ ~fsh[last'.f].unique => streams'[z] = streams[z]
            /\ ~fsh'[last'.f].zipFile

\* C23: FS_FCloseFile on an archive-backed handle always closes the codec's
\* current entry and closes the pack stream if and only if the handle's unique
\* flag is set; the stream a pack shares with the search path stays open
\* through every open and close, and a stream a handle owns is closed once,
\* while it is open
C23_SharedPackStreamSurvivesClose ==
    [][ArchiveCloseStep]_vars /\ [](FS_Initialized => PakHandlesOpen)

\* a handle on the shared stream of a pack has been closed while another
\* handle on the same pack was open, and the stream is still open
C23_Witness ==
    /\ last.op = "FS_FCloseFile"
    /\ CallsOf(last.calls, "unzCloseCurrentFile") # <<>>
    /\ CallsOf(last.calls, "unzClose") = <<>>
    /\ \E f \in Occupied :
          /\ fsh[f].zipFile /\ ~fsh[f].unique
          /\ last.calls[1].stream = fsh[f].o
          /\ streams[fsh[f].o].open

WholeFileOps == {"FS_ReadFile", "FS_WriteFile", "FS_SV_WriteFile"}

\* C24: FS_ReadFile, FS_WriteFile and FS_SV_WriteFile, whenever they return,
\* leave the set of occupied handle slots as it was before the call; and the
\* buffer FS_ReadFile loads has length + 1 bytes, the one at index length zero
C24_WholeFileCallsAreHandleNeutral ==
    (last.op \in WholeFileOps /\ last.err = "none") =>
        /\ alive
        /\ Occupied = last.pre
        /\ (last.op = "FS_ReadFile" /\ last.buffer) =>
              /\ Len(last.data) = last.ret + 1
              /\ last.data[last.ret + 1] = 0

\* with another handle open: a whole file was loaded, or its length asked
\* for with no buffer, or a server-local file written or not opened
C24_Witness ==
    /\ last.pre # {}
    /\ last.err = "none"
    /\ \/ last.op = "FS_ReadFile" /\ last.buffer /\ last.ret = MaxFileLen
       \/ last.op = "FS_ReadFile" /\ ~last.buffer /\ last.ret > 0
       \/ last.op = "FS_SV_WriteFile" /\ last.ret = 2
       \/ last.op = "FS_SV_WriteFile" /\ last.h = 0 /\ last.calls # <<>>

RECURSIVE SumRequested(_)
\* the bytes a sequence of codec reads asks for in total
SumRequested(calls) ==
    IF calls = <<>> THEN 0 ELSE Head(calls).n + SumRequested(Tail(calls))

\* C25: FS_Seek( h, k, FS_SEEK_CUR ) with k >= 0 on an archive-backed handle
\* at position p of an entry of length L leaves the position at min( p + k, L ),
\* asking the codec for k bytes in total in chunks of at most
\* PK3_SEEK_BUFFER_SIZE, with the streamed flag set or clear
C25_SeekCurAdvancesByOffset ==
    [][(/\ last'.op = "FS_Seek"
        /\ last'.origin = FS_SEEK_CUR
        /\ last'.len >= 0
        /\ last'.err = "none"
        /\ last'.f \in Occupied
        /\ fsh[last'.f].zipFile)
       => LET z == fsh[last'.f].o
              reads == CallsOf(last'.calls, "unzReadCurrentFile")
          IN  /\ streams'[z].pos = Min(streams[z].pos + last'.len, streams[z].size)
              /\ SumRequested(reads) = last'.len
              /\ \A k \in 1..Len(reads) : reads[k].n <= PK3_SEEK_BUFFER_SIZE]_vars

\* the directories the last call handed to mkdir, in order
MkdirsMade == CallsOf(last.calls, "mkdir")

\* C26: for a safe path the opens for writing and appending create one
\* directory for every proper prefix of the path that ends just before a
\* separator after the first character, shortest first, and none for the final
\* component; and they return handle 0 whenever one of these creations fails
C26_OpenFailsWhenADirectoryCannotBeCreated ==
    (/\ last.op \in {"FS_SV_FOpenFileWrite", "FS_SV_FOpenFileAppend"}
     /\ last.init
     /\ last.err = "none"
     /\ ~FS_CreatePath_refuses(SV_OSPath(fs_homepath, last.name)))
    => LET path == SV_OSPath(fs_homepath, last.name)
           seps == {k \in 2..Len(path) : path[k] = PATH_SEP}
       IN  /\ Len(MkdirsMade) = Cardinality(seps)
           /\ \A j \in 1..Len(MkdirsMade) :
                 /\ Len(MkdirsMade[j].path) + 1 \in seps
                 /\ MkdirsMade[j].path = SubSeq(path, 1, Len(MkdirsMade[j].path))
                 /\ j > 1 => Len(MkdirsMade[j - 1].path) < Len(MkdirsMade[j].path)
           /\ (\E j \in 1..Len(MkdirsMade) : MkdirsMade[j].r # 0) => last.h = 0

\* the native transfers of the last call
Transfers == SelectSeq(last.calls, LAMBDA c : c.fn \in {"fread", "fwrite", "unzReadCurrentFile"})

\* ceil( k / PK3_SEEK_BUFFER_SIZE )
SeekChunks(k) == (k + PK3_SEEK_BUFFER_SIZE - 1) \div PK3_SEEK_BUFFER_SIZE

\* C27: the transfer loops end.  With native results between 0 and the count
\* asked for, FS_Read and FS_Write of len bytes return after at most len + 2
\* native calls; each pass of FS_Seek over the discard loop of an archive seek
\* by k makes at most ceil( k / PK3_SEEK_BUFFER_SIZE ) + 1 codec reads; and
\* the count still to move, which every call is asked for, is never negative
C27_TransferLoopsEnd ==
    /\ (/\ last.op \in {"FS_Read", "FS_Write"}
        /\ \A j \in 1..Len(Transfers) : Transfers[j].r >= 0)
       => /\ Len(Transfers) <= last.len + 2
          /\ last.err = "none"
          /\ alive
    /\ (last.op = "FS_Seek" /\ last.err = "none" /\ last.len >= 0)
       => Len(Transfers) <= (IF fsh[last.f].streamed THEN 2 ELSE 1) * (SeekChunks(last.len) + 1)
    /\ last.op \in {"FS_Read", "FS_Write", "FS_Seek"}
       => \A j \in 1..Len(Transfers) :
             /\ Transfers[j].n >= 0
             /\ Transfers[j].r <= Transfers[j].n
             /\ (j > 1 /\ Transfers[j].fn # "unzReadCurrentFile")
                   => Transfers[j].n = Transfers[j - 1].n - Transfers[j - 1].r

\* a write of MaxLen bytes took MaxLen + 1 native calls, one of which wrote
\* nothing; and an archive seek past one chunk took more than one codec read
C27_Witness ==
    \/ /\ last.op = "FS_Write"
       /\ last.len = MaxLen
       /\ last.ret = MaxLen
       /\ Len(Transfers) = MaxLen + 1
    \/ /\ last.op = "FS_Seek"
       /\ last.len > PK3_SEEK_BUFFER_SIZE
       /\ Len(Transfers) = SeekChunks(last.len)
       /\ Len(Transfers) > 1

ServerOpens == {"FS_SV_FOpenFileWrite", "FS_SV_FOpenFileAppend", "FS_SV_FOpenFileRead"}

\* C28: an open that returns handle 0, for a refused path, a failed fopen
\* or a file that is not found, leaves the set of occupied slots as it was, so
\* the slot it scanned is still free for the next open
C28_FailedOpenConsumesNoHandle ==
    (last.op \in ServerOpens /\ last.err = "none" /\ last.h = 0) =>
        /\ Occupied = last.pre
        /\ FS_HandleForFile # -1
        /\ fsh[FS_HandleForFile].o = NULL

\* with a handle open, opens have failed for a refused path and for a file
\* fopen could not open
C28_Witness ==
    /\ last.op \in ServerOpens
    /\ last.err = "none"
    /\ last.h = 0
    /\ last.pre # {}
    /\ \/ FS_CreatePath_refuses(SV_OSPath(fs_homepath, last.name))
       \/ /\ last.op = "FS_SV_FOpenFileRead"
          /\ Len(last.calls) = 2

\* C29: slot 0 is never occupied, every slot whose zipFile flag is set holds
\* a stream, and so every slot FS_HandleForFile takes for free has the flag
\* clear
C29_ArchiveFlagImpliesStream ==
    /\ 0 \notin Occupied
    /\ \A i \in Slots : fsh[i].zipFile => fsh[i].o # NULL
    /\ \A i \in ScannedSlots : fsh[i].o = NULL => ~fsh[i].zipFile

\* an archive handle was closed while another is open, and the slot it had is
\* the one the next open gets
C29_Witness ==
    /\ last.op = "FS_FCloseFile"
    /\ CallsOf(last.calls, "unzCloseCurrentFile") # <<>>
    /\ \E i \in Occupied : fsh[i].zipFile /\ i > last.f
    /\ FS_HandleForFile = last.f

\* C30: FS_SV_Rename never loses the file: when the native rename succeeds
\* nothing is copied or removed, and when it fails the source is removed only
\* after the fallback copy has written the whole destination
C30_RenameRemovesOnlyAfterCopy ==
    last.op = "FS_SV_Rename" =>
        /\ last.calls[1].fn = "rename"
        /\ last.calls[1].r = 0 => Len(last.calls) = 1
        /\ \A k \in 1..Len(last.calls) :
              last.calls[k].fn = "remove" =>
                  \E j \in 1..(k - 1) :
                      /\ last.calls[j].fn = "fwrite"
                      /\ last.calls[j].r = last.calls[j].n

RECURSIVE StreamsLeft(_, _)
\* the streams still open at the end of a call log that starts with the streams
\* in open: an fopen that succeeds adds its stream, an fclose takes its stream
\* away; <<"bad">> marks an fclose on a stream that is not open
StreamsLeft(calls, open) ==
    IF calls = <<>> THEN open
    ELSE LET c == Head(calls)
         IN  IF c.fn \in {"fopen_rb", "fopen_wb"} /\ c.stream # NULL
             THEN StreamsLeft(Tail(calls), open \cup {c.stream})
             ELSE IF c.fn = "fclose"
             THEN IF c.stream \in open
                  THEN StreamsLeft(Tail(calls), open \ {c.stream})
                  ELSE {<<"bad">>}
             ELSE StreamsLeft(Tail(calls), open)

\* every stream FS_SV_HomeCopyFile opened was closed, and closed once, when it
\* returns
CopyStreamsClosedOnce ==
    (last.op = "FS_SV_HomeCopyFile" /\ last.err = "none") =>
        StreamsLeft(last.calls, {}) = {}

\* C31: FS_SV_HomeCopyFile releases what it acquires on every non-fatal return:
\* each stream it opened is closed exactly once and the buffer it allocated is
\* freed, also when FS_CreatePath rejects the destination or the destination
\* cannot be opened
C31_CopyReleasesEveryResource ==
    (last.op = "FS_SV_HomeCopyFile" /\ last.err = "none") =>
        /\ StreamsLeft(last.calls, {}) = {}
        /\ Len(CallsOf(last.calls, "free")) = Len(CallsOf(last.calls, "malloc"))

====
